---- MODULE Spec2Model ----
(***************************************************************************)
(* The laser-tag match session engine.                                     *)
(*                                                                         *)
(* The repository holds several variants of the server.  This module       *)
(* models them side by side:                                               *)
(*   Spec     the WebSocket server of src/unnamed/part_001 (lines 762 to   *)
(*            1369) on top of src/laser-tag/server/app-data.js (1 to 147)  *)
(*   SpecSrv  the WebSocket server of src/laser-tag/server/server.js on    *)
(*            the same app-data.js                                         *)
(*   SpecIO   the Socket.IO server of src/unnamed/part_000 (74 to 312)     *)
(*   SpecGS   the GameSession server of src/unnamed/part_002               *)
(* A handler of the Node.js event loop runs to completion, so each handler *)
(* (connection, message, close, interval callback) is one action.          *)
(***************************************************************************)
EXTENDS Integers, Sequences, FiniteSets, TLC

\* ---------------------------------------------------------------- bounds
\* A behaviour starts in one of a few states the server can be in and then runs under
\* the limits of that start (see Init); the limits are built from these bounds.
MaxConns == 3       \* connections (open or closed) in one behaviour
MaxTicks == 3       \* interval callbacks run in one behaviour
MaxHits == 2        \* hit messages in one behaviour
MaxGrants == 1      \* powerups granted in one behaviour
MaxFrames == 1      \* camera frames in one behaviour
MaxForfeits == 1    \* forfeit messages in one behaviour
MaxStarts == 1      \* startGame messages in one behaviour
MaxDigit == 1       \* the random suffix digit is drawn from 0..MaxDigit
MaxRejoins == 1     \* joinTeam messages in one behaviour
MaxSweeps == 1      \* runs of the periodic clean-up in one behaviour
MaxChecks == 1      \* colour-check messages in one behaviour
Letters == 2        \* letters of the alphabet the random session id is drawn from
MaxRegistered == 2  \* sessions registered when a session id is asked for
WornHits == 4        \* hits taken by a player before a behaviour of worn players starts
MaxRestarts == 2    \* startGame messages in a behaviour that restarts the game
MaxDepth == 4       \* broadcasts on the stack: one more than a session has players

\* ------------------------------------------------------ program constants
SESSION_PERSIST_TIME == 300
GAME_TIME == 180
START_POINTS == 50
START_HEALTH == 100
MAX_HEALTH == 100
ELIMINATED_HEALTH == 10
HIT_HEALTH_DAMAGE == 10
HIT_HEALTH_REWARD == 5
HEALTH_BOOST == 30
POWERUP_DURATION == 10
PISTOL_DAMAGE == 6
SHOTGUN_DAMAGE == 12
SNIPER_DAMAGE == 32

\* ------------------------------------------------------------ input sets
SessionIds == {"abcd"}
Names == {"cable", "zeke"}
Colors == {"red", "blue"}
HitColors == Colors \cup {"cyan"}
TeamIds == {"1", "2"}
Weapons == {"pistol", "sniper"}
PathModes == {"session", "team-session"}
Powerups == {"invincibility", "instakill", "healthBoost"}
ClientHealths == {0, 20, 250}
Digits == 0..MaxDigit
ConnIds == 1..MaxConns
ObjIds == 1..MaxConns

Null == "null"

Max(a, b) == IF a > b THEN a ELSE b
Min(a, b) == IF a < b THEN a ELSE b

VARIABLES
    sessions,   \* appData.sessions: session id -> session object (0: no entry)
    alloc,      \* the session objects that exist
    heap,       \* session object -> its fields
    conn,       \* connection -> the variables its handlers close over
    opened,     \* connections opened so far
    out,        \* the messages the last handler sent, in order
    last,       \* the kind of the last handler that ran
    idle,       \* session object -> consecutive ticks that found it empty
    used,       \* how many handlers of each kind have run
    limit,      \* how many handlers of each kind this behaviour may run
    expect,     \* session object -> its players had every accepted hit and every tick
                \* since its roster last changed been applied alone, in arrival order
    tally       \* the accepted hits since then: <<session object, connection, target>>

vars == <<sessions, alloc, heap, conn, opened, out, last, idle, used, limit, expect, tally>>

\* ------------------------------------------------------------ app-data.js
\* session.teams = {}: team id -> usernames in joining order
EmptyTeams == [t \in {} |-> <<>>]

BlankSession ==
    [id |-> "", mode |-> "", state |-> "", admin |-> Null, timeLeft |-> 0,
     persistTime |-> 0, players |-> <<>>, teams |-> EmptyTeams, spectators |-> {},
     latestFrames |-> {}]

BlankConn ==
    [kind |-> "new", obj |-> 0, username |-> "", teamId |-> Null, isTeamMode |-> FALSE]

ClosedConn == [BlankConn EXCEPT !.kind = "closed"]

createSession(id, mode) ==
    [id |-> id, mode |-> IF mode \in {"solo", "team"} THEN mode ELSE "solo",
     state |-> "lobby", admin |-> Null, timeLeft |-> 0,
     persistTime |-> SESSION_PERSIST_TIME, players |-> <<>>, teams |-> EmptyTeams,
     spectators |-> {}, latestFrames |-> {}]

\* ------------------------------------------------------ helpers on a session
Usernames(players) == {players[i].username : i \in 1..Len(players)}

HasPlayer(players, u) == u \in Usernames(players)

IndexOf(players, u) == CHOOSE i \in 1..Len(players) : players[i].username = u

Filter(seq, u) == SelectSeq(seq, LAMBDA x : x # u)

\* for (let u in session.players) if (color matches) { target = ...; break }: 0 when none
FirstWithColor(players, color) ==
    IF \E i \in 1..Len(players) : players[i].color = color
    THEN CHOOSE i \in 1..Len(players) :
            /\ players[i].color = color
            /\ \A j \in 1..(i - 1) : players[j].color # color
    ELSE 0

getPlayerList(s) ==
    [i \in 1..Len(s.players) |->
        [username |-> s.players[i].username, color |-> s.players[i].color,
         hitsGiven |-> s.players[i].hitsGiven, hitsTaken |-> s.players[i].hitsTaken,
         points |-> s.players[i].points, health |-> s.players[i].health,
         teamId |-> IF s.mode = "team" THEN s.players[i].teamId ELSE Null]]

TeamMember(s, u) ==
    LET p == s.players[IndexOf(s.players, u)]
    IN  [username |-> p.username, color |-> p.color, health |-> p.health, points |-> p.points]

getTeams(s) ==
    IF s.mode # "team" THEN {}
    ELSE {[teamId |-> t,
           players |-> [k \in 1..Len(SelectSeq(s.teams[t], LAMBDA u : HasPlayer(s.players, u))) |->
                          TeamMember(s, SelectSeq(s.teams[t], LAMBDA u : HasPlayer(s.players, u))[k])]]
          : t \in DOMAIN s.teams}

Msg(type, body, toPlayers, toSpectators) ==
    [type |-> type, body |-> body, toPlayers |-> toPlayers, toSpectators |-> toSpectators]

broadcastPlayerList(s) ==
    Msg("playerListUpdate",
        IF s.mode = "team" THEN [admin |-> s.admin, teams |-> getTeams(s)]
        ELSE [admin |-> s.admin, playerList |-> getPlayerList(s)],
        TRUE, TRUE)

\* ------------------------------------------------------------ hit arbitration
weaponDamages(weapon) ==
    CASE weapon = "pistol" -> PISTOL_DAMAGE
      [] weapon = "sniper" -> SNIPER_DAMAGE
      [] weapon = "shotgun" -> SHOTGUN_DAMAGE
      [] OTHER -> PISTOL_DAMAGE

\* A bug: friendly fire is never blocked.
friendlyFireAllowed(s, sh, tg) == FALSE

\* if (session.mode === "team" && player.teamId === target.teamId) return
friendlyFire(s, sh, tg) == s.mode = "team" /\ s.players[sh].teamId = s.players[tg].teamId

\* A bug: the target's new health and points are computed from the values it joined with,
\* so a hit overwrites what earlier hits did to the target.
applyHitStale(ps, sh, tg, weapon) ==
    LET p1 == [ps EXCEPT ![tg].health = Max(0, START_HEALTH - HIT_HEALTH_DAMAGE)]
        p2 == [p1 EXCEPT ![sh].health = Min(MAX_HEALTH, @ + HIT_HEALTH_REWARD)]
        damage == weaponDamages(weapon)
        p3 == IF p2[sh].instakill > 0
              THEN [[p2 EXCEPT ![tg].points = 0] EXCEPT ![sh].points = @ + (START_POINTS \div 2)]
              ELSE [[p2 EXCEPT ![tg].points = Max(0, START_POINTS - damage)]
                        EXCEPT ![sh].points = @ + (damage \div 2)]
        p4 == [p3 EXCEPT ![sh].hitsGiven = @ + 1]
    IN  [p4 EXCEPT ![tg].hitsTaken = @ + 1]

\* A bug: the target's points are not floored at 0.
applyHitNoFloor(ps, sh, tg, weapon) ==
    LET p1 == [ps EXCEPT ![tg].health = Max(0, @ - HIT_HEALTH_DAMAGE)]
        p2 == [p1 EXCEPT ![sh].health = Min(MAX_HEALTH, @ + HIT_HEALTH_REWARD)]
        currentPoints == p2[tg].points
        damage == weaponDamages(weapon)
        p3 == IF p2[sh].instakill > 0
              THEN [[p2 EXCEPT ![tg].points = 0] EXCEPT ![sh].points = @ + (currentPoints \div 2)]
              ELSE [[p2 EXCEPT ![tg].points = @ - damage]
                        EXCEPT ![sh].points = @ + (damage \div 2)]
        p4 == [p3 EXCEPT ![sh].hitsGiven = @ + 1]
    IN  [p4 EXCEPT ![tg].hitsTaken = @ + 1]

\* A bug: instakill is ignored and the weapon's table applies.
applyHitByWeapon(ps, sh, tg, weapon) ==
    LET p1 == [ps EXCEPT ![tg].health = Max(0, @ - HIT_HEALTH_DAMAGE)]
        p2 == [p1 EXCEPT ![sh].health = Min(MAX_HEALTH, @ + HIT_HEALTH_REWARD)]
        damage == weaponDamages(weapon)
        p3 == [[p2 EXCEPT ![tg].points = Max(0, @ - damage)] EXCEPT ![sh].points = @ + (damage \div 2)]
        p4 == [p3 EXCEPT ![sh].hitsGiven = @ + 1]
    IN  [p4 EXCEPT ![tg].hitsTaken = @ + 1]

\* The mutations of an accepted hit, in the order the code makes them, on the
\* player objects at positions sh (shooter) and tg (target), which may be one object.
applyHit(ps, sh, tg, weapon) ==
    LET p1 == [ps EXCEPT ![tg].health = Max(0, @ - HIT_HEALTH_DAMAGE)]
        p2 == [p1 EXCEPT ![sh].health = Min(MAX_HEALTH, @ + HIT_HEALTH_REWARD)]
        currentPoints == p2[tg].points
        damage == weaponDamages(weapon)
        p3 == IF p2[sh].instakill > 0
              THEN [[p2 EXCEPT ![tg].points = 0] EXCEPT ![sh].points = @ + (currentPoints \div 2)]
              ELSE [[p2 EXCEPT ![tg].points = Max(0, @ - damage)]
                        EXCEPT ![sh].points = @ + (damage \div 2)]
        p4 == [p3 EXCEPT ![sh].hitsGiven = @ + 1]
    IN  [p4 EXCEPT ![tg].hitsTaken = @ + 1]

eliminationCause(target) ==
    IF target.health <= ELIMINATED_HEALTH /\ target.points <= 0 THEN "health_and_points_depleted"
    ELSE IF target.health <= ELIMINATED_HEALTH THEN "health_depleted"
    ELSE IF target.points <= 0 THEN "points_depleted"
    ELSE Null

\* A bug: handleHit without its test of the target's points, health and invincibility.
handleHitAnyTarget(s, u, color, weapon) ==
    LET ps == s.players
        sh == IndexOf(ps, u)
        tg == FirstWithColor(ps, color)
        rejected == [s |-> s, out |-> <<>>, target |-> 0]
    IN  IF color \in {"cyan", "aqua"} THEN rejected
        ELSE IF ps[sh].points <= 0 \/ ps[sh].health <= ELIMINATED_HEALTH THEN rejected
        ELSE IF tg = 0 THEN rejected
        ELSE IF friendlyFire(s, sh, tg) THEN rejected
        ELSE LET qs == applyHit(ps, sh, tg, weapon)
             IN  [s |-> [s EXCEPT !.players = qs],
                  out |-> <<Msg("hit", [player |-> qs[sh].username, target |-> qs[tg].username,
                                        weapon |-> weapon], TRUE, TRUE)>>,
                  target |-> tg]

\* handleHit(session, session.players[u], color, weapon): the session after it, the
\* messages it sent, and the position of the target when the hit was accepted (else 0).
handleHit(s, u, color, weapon) ==
    LET ps == s.players
        sh == IndexOf(ps, u)
        tg == FirstWithColor(ps, color)
        rejected == [s |-> s, out |-> <<>>, target |-> 0]
    IN  IF color \in {"cyan", "aqua"} THEN rejected
        ELSE IF ps[sh].points <= 0 \/ ps[sh].health <= ELIMINATED_HEALTH THEN rejected
        ELSE IF tg = 0 THEN rejected
        ELSE IF \/ ps[tg].points <= 0
                \/ ps[tg].health <= ELIMINATED_HEALTH
                \/ ps[tg].invincibility > 0 THEN rejected
        ELSE IF friendlyFire(s, sh, tg) THEN rejected
        ELSE LET qs == applyHit(ps, sh, tg, weapon)
                 hitMsg == Msg("hit",
                               [player |-> qs[sh].username, target |-> qs[tg].username,
                                weapon |-> weapon, targetHealth |-> qs[tg].health,
                                targetPoints |-> qs[tg].points, shooterHealth |-> qs[sh].health,
                                shooterPoints |-> qs[sh].points], TRUE, TRUE)
                 cause == eliminationCause(qs[tg])
             IN  [s |-> [s EXCEPT !.players = qs],
                  out |-> IF cause # Null
                          THEN <<hitMsg, Msg("elimination",
                                             [player |-> qs[tg].username, weapon |-> weapon,
                                              cause |-> cause], TRUE, TRUE)>>
                          ELSE <<hitMsg>>,
                  target |-> tg]

\* ------------------------------------------------------------ the match clock
GrantChoices == {"none"} \cup Powerups

\* A bug: tickPlayer without "set points to 0 for low health players".
tickPlayerKeepsPoints(p, grant) ==
    LET p2 == [p EXCEPT !.invincibility = IF @ > 0 THEN @ - 1 ELSE @,
                        !.instakill = IF @ > 0 THEN @ - 1 ELSE @,
                        !.healthBoost = IF @ > 0 THEN @ - 1 ELSE @]
    IN  CASE grant = "healthBoost" -> [p2 EXCEPT !.health = Min(MAX_HEALTH, @ + HEALTH_BOOST)]
          [] grant = "invincibility" -> [p2 EXCEPT !.invincibility = POWERUP_DURATION]
          [] grant = "instakill" -> [p2 EXCEPT !.instakill = POWERUP_DURATION]
          [] OTHER -> p2

\* A bug: tickPlayer storing healthBoost as it stores the other two powerups.
tickPlayerStoresBoost(p, grant) ==
    LET p1 == IF p.health <= ELIMINATED_HEALTH /\ p.points > 0 THEN [p EXCEPT !.points = 0] ELSE p
        p2 == [p1 EXCEPT !.invincibility = IF @ > 0 THEN @ - 1 ELSE @,
                         !.instakill = IF @ > 0 THEN @ - 1 ELSE @,
                         !.healthBoost = IF @ > 0 THEN @ - 1 ELSE @]
    IN  CASE grant = "healthBoost" -> [p2 EXCEPT !.health = Min(MAX_HEALTH, @ + HEALTH_BOOST),
                                                 !.healthBoost = POWERUP_DURATION]
          [] grant = "invincibility" -> [p2 EXCEPT !.invincibility = POWERUP_DURATION]
          [] grant = "instakill" -> [p2 EXCEPT !.instakill = POWERUP_DURATION]
          [] OTHER -> p2

\* One player's part of a tick in game state; grant is the outcome of the two
\* Math.random() draws ("none": the 6% draw failed).
tickPlayer(p, grant) ==
    LET p1 == IF p.health <= ELIMINATED_HEALTH /\ p.points > 0 THEN [p EXCEPT !.points = 0] ELSE p
        p2 == [p1 EXCEPT !.invincibility = IF @ > 0 THEN @ - 1 ELSE @,
                         !.instakill = IF @ > 0 THEN @ - 1 ELSE @,
                         !.healthBoost = IF @ > 0 THEN @ - 1 ELSE @]
    IN  CASE grant = "healthBoost" -> [p2 EXCEPT !.health = Min(MAX_HEALTH, @ + HEALTH_BOOST)]
          [] grant = "invincibility" -> [p2 EXCEPT !.invincibility = POWERUP_DURATION]
          [] grant = "instakill" -> [p2 EXCEPT !.instakill = POWERUP_DURATION]
          [] OTHER -> p2

tickPlayers(ps, grants) == [i \in 1..Len(ps) |-> tickPlayer(ps[i], grants[i])]

powerupMsgs(ps, grants) ==
    LET granted == SelectSeq([i \in 1..Len(ps) |-> i], LAMBDA i : grants[i] # "none")
    IN  [k \in 1..Len(granted) |->
            Msg("powerup", [to |-> ps[granted[k]].username, powerup |-> grants[granted[k]],
                            duration |-> POWERUP_DURATION], TRUE, FALSE)]

isEmpty(s) == Len(s.players) = 0 /\ s.spectators = {}

\* The persistence part of the interval callback for one session: the countdown after
\* it, and whether the session is deleted from the registry.
persistStep(s) ==
    IF isEmpty(s)
    THEN LET pt == (IF s.persistTime # 0 THEN s.persistTime ELSE SESSION_PERSIST_TIME) - 1
         IN  [persistTime |-> pt, deleted |-> pt <= 0]
    ELSE [persistTime |-> SESSION_PERSIST_TIME, deleted |-> FALSE]

\* A bug: gameStep without its test of session.state.
gameStepAnyState(s, grants) ==
    LET s1 == [s EXCEPT !.timeLeft = @ - 1, !.players = tickPlayers(@, grants)]
        update == Msg("gameUpdate", [timeLeft |-> s1.timeLeft, players |-> getPlayerList(s1)],
                      TRUE, TRUE)
    IN  [s |-> s1, out |-> <<update>>]

\* The game part of the interval callback for one session.
gameStep(s, grants) ==
    IF s.state # "game" THEN [s |-> s, out |-> <<>>]
    ELSE LET s1 == [s EXCEPT !.timeLeft = @ - 1, !.players = tickPlayers(@, grants)]
             update == Msg("gameUpdate", [timeLeft |-> s1.timeLeft, players |-> getPlayerList(s1)],
                           TRUE, TRUE)
         IN  IF s1.timeLeft <= 0
             THEN [s |-> [s1 EXCEPT !.state = "finished"],
                   out |-> powerupMsgs(s.players, grants) \o
                           <<update, Msg("gameEnd", [finalScores |-> getPlayerList(s1)], TRUE, TRUE)>>]
             ELSE [s |-> s1, out |-> powerupMsgs(s.players, grants) \o <<update>>]

\* The interval callback's body for one session.
tickSession(s, grants) ==
    LET ps == persistStep(s)
        g == gameStep([s EXCEPT !.persistTime = ps.persistTime], grants)
    IN  IF ps.deleted
        THEN [deleted |-> TRUE, s |-> [s EXCEPT !.persistTime = ps.persistTime], out |-> <<>>]
        ELSE [deleted |-> FALSE, s |-> g.s, out |-> g.out]

\* ------------------------------------------------------------ server.js
srvGetPlayerList(s) ==
    [i \in 1..Len(s.players) |->
        [username |-> s.players[i].username, color |-> s.players[i].color,
         hitsGiven |-> s.players[i].hitsGiven, hitsTaken |-> s.players[i].hitsTaken,
         points |-> s.players[i].points, health |-> s.players[i].health]]

\* server.js, "check if should close session": no players and at least one spectator
srvShouldClose(s) == Len(s.players) = 0 /\ s.spectators # {}

srvPersistStep(s) ==
    IF srvShouldClose(s)
    THEN [persistTime |-> s.persistTime - 1, deleted |-> s.persistTime - 1 <= 0]
    ELSE [persistTime |-> SESSION_PERSIST_TIME, deleted |-> FALSE]

\* for players with low health
srvLowHealth(p) ==
    IF p.health <= ELIMINATED_HEALTH /\ p.points > 0 THEN [p EXCEPT !.points = 0] ELSE p

\* decrease durations, give new
srvPowerups(p, grant) ==
    LET p2 == [p EXCEPT !.invincibility = IF @ > 0 THEN @ - 1 ELSE @,
                        !.instakill = IF @ > 0 THEN @ - 1 ELSE @,
                        !.healthBoost = IF @ > 0 THEN @ - 1 ELSE @]
    IN  CASE grant = "healthBoost" -> [p2 EXCEPT !.health = Min(MAX_HEALTH, @ + HEALTH_BOOST)]
          [] grant = "invincibility" -> [p2 EXCEPT !.invincibility = POWERUP_DURATION]
          [] grant = "instakill" -> [p2 EXCEPT !.instakill = POWERUP_DURATION]
          [] OTHER -> p2

srvGameUpdate(s) ==
    Msg("gameUpdate", [timeLeft |-> s.timeLeft, players |-> srvGetPlayerList(s)], TRUE, TRUE)

\* The game part of server.js's interval callback for one session. No player has a
\* position, so the position broadcast every fifth second lists none.
srvGameStep(s, grants) ==
    IF s.state # "game" THEN [s |-> s, out |-> <<>>]
    ELSE LET s1 == [s EXCEPT !.timeLeft = @ - 1,
                             !.players = [i \in 1..Len(@) |-> srvLowHealth(@[i])]]
             s2 == [s1 EXCEPT !.players = [i \in 1..Len(@) |-> srvPowerups(@[i], grants[i])]]
             positions == IF s2.timeLeft % 5 = 0
                          THEN <<Msg("playerPositions", <<>>, TRUE, TRUE)>> ELSE <<>>
         IN  IF s1.timeLeft <= 0
             THEN [s |-> [s1 EXCEPT !.state = "finished"], out |-> <<srvGameUpdate(s1)>>]
             ELSE [s |-> s2,
                   out |-> <<srvGameUpdate(s1)>> \o powerupMsgs(s1.players, grants)
                           \o positions \o <<srvGameUpdate(s2)>>]

\* The body of server.js's interval callback for one session.
srvTickSession(s, grants) ==
    LET ps == srvPersistStep(s)
        g == srvGameStep([s EXCEPT !.persistTime = ps.persistTime], grants)
    IN  IF ps.deleted
        THEN [deleted |-> TRUE, s |-> [s EXCEPT !.persistTime = ps.persistTime],
              out |-> <<Msg("sessionClose", <<>>, FALSE, TRUE)>>]
        ELSE [deleted |-> FALSE, s |-> g.s, out |-> g.out]

SRV_HIT_HEALTH_REWARD == 10

\* weaponDamages[weapon] ?? 0
srvWeaponDamages(weapon) ==
    CASE weapon = "pistol" -> PISTOL_DAMAGE
      [] weapon = "sniper" -> SNIPER_DAMAGE
      [] weapon = "shotgun" -> SHOTGUN_DAMAGE
      [] OTHER -> 0

srvApplyHit(ps, sh, tg, weapon) ==
    LET p1 == [ps EXCEPT ![tg].health = Max(0, @ - HIT_HEALTH_DAMAGE)]
        p2 == [p1 EXCEPT ![sh].health = Min(MAX_HEALTH, @ + SRV_HIT_HEALTH_REWARD)]
        currentPoints == p2[tg].points
        damage == srvWeaponDamages(weapon)
        p3 == IF p2[sh].instakill > 0
              THEN [[p2 EXCEPT ![tg].points = 0] EXCEPT ![sh].points = @ + (currentPoints \div 2)]
              ELSE [[p2 EXCEPT ![tg].points = Max(0, @ - damage)]
                        EXCEPT ![sh].points = @ + (damage \div 2)]
        p4 == [p3 EXCEPT ![sh].hitsGiven = @ + 1]
    IN  [p4 EXCEPT ![tg].hitsTaken = @ + 1]

\* server.js's handleHit: no check of the teams, and one elimination message for the
\* health and one for the points.
srvHandleHit(s, u, color, weapon) ==
    LET ps == s.players
        sh == IndexOf(ps, u)
        tg == FirstWithColor(ps, color)
        rejected == [s |-> s, out |-> <<>>, target |-> 0]
    IN  IF color = "cyan" THEN rejected
        ELSE IF ps[sh].points <= 0 \/ ps[sh].health <= ELIMINATED_HEALTH THEN rejected
        ELSE IF tg = 0 THEN rejected
        ELSE IF \/ ps[tg].points <= 0
                \/ ps[tg].health <= ELIMINATED_HEALTH
                \/ ps[tg].invincibility > 0 THEN rejected
        ELSE LET qs == srvApplyHit(ps, sh, tg, weapon)
                 hitMsg == Msg("hit",
                               [player |-> qs[sh].username, target |-> qs[tg].username,
                                weapon |-> weapon, targetHealth |-> qs[tg].health,
                                shooterHealth |-> qs[sh].health], TRUE, TRUE)
                 byHealth == IF qs[tg].health <= ELIMINATED_HEALTH
                             THEN <<Msg("elimination",
                                        [player |-> qs[tg].username, weapon |-> weapon,
                                         cause |-> "health_depleted"], TRUE, TRUE)>>
                             ELSE <<>>
                 byPoints == IF qs[tg].points <= 0
                             THEN <<Msg("elimination",
                                        [player |-> qs[tg].username, weapon |-> weapon,
                                         cause |-> "points_depleted"], TRUE, TRUE)>>
                             ELSE <<>>
             IN  [s |-> [s EXCEPT !.players = qs],
                  out |-> <<hitMsg>> \o byHealth \o byPoints,
                  target |-> tg]

\* server.js, type === "startGame"
srvStartGame(s, u) ==
    LET s1 == [s EXCEPT !.state = "game", !.timeLeft = GAME_TIME]
    IN  [s |-> s1, out |-> <<Msg("startGame", [playerList |-> srvGetPlayerList(s1)], TRUE, TRUE)>>]

\* ------------------------------------------------------------ connections
\* while (session.players[uniqueUsername]) uniqueUsername += <random digit>: the names
\* the loop can end with, its iterations bounded by fuel.
RECURSIVE UniqueNames(_, _, _)
UniqueNames(players, name, fuel) ==
    IF ~HasPlayer(players, name) THEN {name}
    ELSE IF fuel = 0 THEN {}
    ELSE UNION {UniqueNames(players, name \o ToString(d), fuel - 1) : d \in Digits}

\* invincibility, instakill and healthBoost are the entries of activePowerups, 0 standing
\* for an entry that is 0 or not there.
newPlayer(c, u, color, teamId) ==
    [connection |-> c, username |-> u, color |-> color, teamId |-> teamId,
     hitsGiven |-> 0, hitsTaken |-> 0, points |-> START_POINTS, health |-> START_HEALTH,
     invincibility |-> 0, instakill |-> 0, healthBoost |-> 0]

\* session.teams[teamId].push(u), creating the entry when there is none
teamPush(teams, teamId, u) ==
    [t \in DOMAIN teams \cup {teamId} |->
        IF t = teamId THEN (IF t \in DOMAIN teams THEN Append(teams[t], u) ELSE <<u>>)
        ELSE teams[t]]

\* session.teams[teamId] = filter(...); delete the entry when it is left empty
teamRemove(teams, teamId, u) ==
    IF teamId \notin DOMAIN teams THEN teams
    ELSE IF Filter(teams[teamId], u) = <<>>
         THEN [t \in DOMAIN teams \ {teamId} |-> teams[t]]
         ELSE [teams EXCEPT ![teamId] = Filter(@, u)]

\* if (!session.admin) session.admin = uniqueUsername
setAdmin(s, u) == IF s.admin = Null THEN [s EXCEPT !.admin = u] ELSE s

\* The player-join part of the connection handler.
joinPlayer(s, c, u, color, isTeamMode, teamId) ==
    LET s1 == [s EXCEPT !.players = Append(@, newPlayer(c, u, color, IF isTeamMode THEN teamId ELSE Null))]
        s2 == IF isTeamMode THEN [s1 EXCEPT !.teams = teamPush(@, teamId, u)] ELSE s1
    IN  setAdmin(s2, u)

joinMessages(s, u) ==
    <<Msg("soundPreference", [to |-> u], TRUE, FALSE),
      Msg("playerJoin", [username |-> u], TRUE, TRUE),
      broadcastPlayerList(s)>>

\* Object.keys(session.players)[0] || null
firstKey(players) == IF Len(players) > 0 THEN players[1].username ELSE Null

\* A bug: the admin who leaves stays admin.
updateAdminNever(s, u) == s

\* if (session.admin === uniqueUsername) session.admin = <first remaining key or null>
updateAdmin(s, u) == IF s.admin = u THEN [s EXCEPT !.admin = firstKey(s.players)] ELSE s

\* The player's close handler.
closePlayer(s, u, isTeamMode, teamId) ==
    LET s1 == [s EXCEPT !.players = SelectSeq(@, LAMBDA p : p.username # u)]
        s2 == IF isTeamMode THEN [s1 EXCEPT !.teams = teamRemove(@, teamId, u)] ELSE s1
    IN  updateAdmin(s2, u)

closeMessages(s, u) ==
    <<Msg("playerQuit", [username |-> u], TRUE, TRUE), broadcastPlayerList(s)>>

FreeObj == CHOOSE o \in ObjIds : o \notin alloc /\ \A q \in ObjIds : q < o => q \in alloc

sessionMode(pm) == IF pm = "team-session" THEN "team" ELSE "solo"

\* A bug: every connection gets a session of its own making.
LookupFresh(sid, pm) ==
    [obj |-> FreeObj, s |-> createSession(sid, sessionMode(pm)), created |-> TRUE]

\* The session object a connection to sid gets: appData.sessions[sid], created when absent.
Lookup(sid, pm) ==
    IF sessions[sid] # 0
    THEN [obj |-> sessions[sid], s |-> heap[sessions[sid]], created |-> FALSE]
    ELSE [obj |-> FreeObj, s |-> createSession(sid, sessionMode(pm)), created |-> TRUE]

\* The registry and the heap after a connection handler that left the session as s.
Install(sid, l, s) ==
    /\ sessions' = [sessions EXCEPT ![sid] = l.obj]
    /\ alloc' = alloc \cup {l.obj}
    /\ heap' = [heap EXCEPT ![l.obj] = s]
    /\ idle' = IF l.created THEN [idle EXCEPT ![l.obj] = 0] ELSE idle

\* The record of accepted hits restarts at every other change of the players.
Restart(o, ps) ==
    /\ expect' = [expect EXCEPT ![o] = ps]
    /\ tally' = {h \in tally : h[1] # o}

ConnectPlayer(sid, pm, name, color, team) ==
    /\ used.conns < limit.conns
    /\ LET c == opened + 1
           l == Lookup(sid, pm)
           isTeamMode == pm = "team-session"
       IN  \E u \in UniqueNames(l.s.players, name, MaxConns) :
             LET s == joinPlayer(l.s, c, u, color, isTeamMode, team)
             IN  /\ Install(sid, l, s)
                 /\ Restart(l.obj, s.players)
                 /\ conn' = [conn EXCEPT ![c] =
                        [kind |-> "player", obj |-> l.obj, username |-> u,
                         teamId |-> IF isTeamMode THEN team ELSE Null, isTeamMode |-> isTeamMode]]
                 /\ out' = joinMessages(s, u)
    /\ opened' = opened + 1
    /\ used' = [used EXCEPT !.conns = @ + 1]
    /\ last' = "join"
    /\ UNCHANGED limit

ConnectSpectator(sid, pm) ==
    /\ used.conns < limit.conns
    /\ LET c == opened + 1
           l == Lookup(sid, pm)
           s == [l.s EXCEPT !.spectators = @ \cup {c}]
       IN  /\ Install(sid, l, s)
           /\ conn' = [conn EXCEPT ![c] = [BlankConn EXCEPT !.kind = "spectator", !.obj = l.obj]]
    /\ opened' = opened + 1
    /\ used' = [used EXCEPT !.conns = @ + 1]
    /\ out' = <<>>
    /\ last' = "spectate"
    /\ UNCHANGED <<limit, expect, tally>>

\* A connection to .../check_color: the handler of its messages closes over the session
\* object found or created here.
ConnectColorCheck(sid, pm) ==
    /\ used.conns < limit.conns
    /\ LET c == opened + 1
           l == Lookup(sid, pm)
       IN  /\ Install(sid, l, l.s)
           /\ conn' = [conn EXCEPT ![c] = [BlankConn EXCEPT !.kind = "check", !.obj = l.obj]]
    /\ opened' = opened + 1
    /\ used' = [used EXCEPT !.conns = @ + 1]
    /\ out' = <<>>
    /\ last' = "check"
    /\ UNCHANGED <<limit, expect, tally>>

\* A player connection without username, colour or (team path) team: closed with a reason.
ConnectRejected(sid, pm) ==
    /\ used.conns < limit.conns
    /\ LET c == opened + 1
           l == Lookup(sid, pm)
       IN  /\ Install(sid, l, l.s)
           /\ conn' = [conn EXCEPT ![c] = ClosedConn]
    /\ opened' = opened + 1
    /\ used' = [used EXCEPT !.conns = @ + 1]
    /\ out' = <<>>
    /\ last' = "rejected"
    /\ UNCHANGED <<limit, expect, tally>>

\* ------------------------------------------------------------ messages
Player(c) == conn[c].kind = "player"

\* case "startGame"
startGame(s, u, isTeamMode) ==
    IF u = s.admin
    THEN LET s1 == [s EXCEPT !.state = "game", !.timeLeft = GAME_TIME]
         IN  [s |-> s1,
              out |-> <<Msg("startGame",
                            [playerList |-> getPlayerList(s1),
                             teams |-> IF isTeamMode THEN getTeams(s1) ELSE {}], TRUE, TRUE)>>]
    ELSE [s |-> s, out |-> <<>>]

startGameOf(v, s, u, isTeamMode) ==
    IF v = "srv" THEN srvStartGame(s, u) ELSE startGame(s, u, isTeamMode)

StartGame(v, c) ==
    /\ Player(c)
    /\ used.starts < limit.starts
    /\ LET o == conn[c].obj
           r == startGameOf(v, heap[o], conn[c].username, conn[c].isTeamMode)
       IN  /\ heap' = [heap EXCEPT ![o] = r.s]
           /\ out' = r.out
           /\ last' = IF conn[c].username = heap[o].admin THEN "startGame:admin" ELSE "startGame:other"
    /\ used' = [used EXCEPT !.starts = @ + 1]
    /\ UNCHANGED <<sessions, alloc, conn, opened, idle, limit, expect, tally>>

\* Whether the player a hit on color would match is on the shooter's team, in a team session.
SameTeam(s, u, color) ==
    /\ s.mode = "team"
    /\ \E i \in 1..Len(s.players) :
          /\ s.players[i].color = color
          /\ \A j \in 1..(i - 1) : s.players[j].color # color
          /\ s.players[i].teamId = s.players[IndexOf(s.players, u)].teamId

\* One accepted hit applied alone to up-to-date players: what the target loses, then what
\* the shooter gains.
OneAtATime(ps, sh, tg, weapon) ==
    LET kill == ps[sh].instakill > 0
        lost == IF kill THEN ps[tg].points ELSE Min(ps[tg].points, weaponDamages(weapon))
        won == IF kill THEN ps[tg].points \div 2 ELSE weaponDamages(weapon) \div 2
        hurt == [ps EXCEPT ![tg] = [@ EXCEPT !.health = Max(0, @ - HIT_HEALTH_DAMAGE),
                                             !.points = @ - lost,
                                             !.hitsTaken = @ + 1]]
    IN  [hurt EXCEPT ![sh] = [@ EXCEPT !.health = Min(MAX_HEALTH, @ + HIT_HEALTH_REWARD),
                                       !.points = @ + won,
                                       !.hitsGiven = @ + 1]]

handleHitOf(v, s, u, color, weapon) ==
    IF v = "srv" THEN srvHandleHit(s, u, color, weapon) ELSE handleHit(s, u, color, weapon)

\* case "hit"
Hit(v, c, color, weapon) ==
    /\ Player(c)
    /\ used.hits < limit.hits
    /\ LET o == conn[c].obj
           s == heap[o]
           r == handleHitOf(v, s, conn[c].username, color, weapon)
       IN  /\ heap' = [heap EXCEPT ![o] = r.s]
           /\ out' = r.out
           /\ expect' = IF r.target # 0
                        THEN [expect EXCEPT ![o] = OneAtATime(@, IndexOf(s.players, conn[c].username),
                                                              r.target, weapon)]
                        ELSE expect
           /\ tally' = IF r.target # 0
                       THEN tally \cup {<<o, c, s.players[r.target].username>>}
                       ELSE tally
           /\ last' = IF SameTeam(s, conn[c].username, color) THEN "hit:sameTeam" ELSE "hit"
    /\ used' = [used EXCEPT !.hits = @ + 1]
    /\ UNCHANGED <<sessions, alloc, conn, opened, idle, limit>>

\* The reply to a colour-check message, sent to its sender alone.
colorResult(s, color) ==
    LET taken == \E i \in 1..Len(s.players) : s.players[i].color = color
    IN  Msg("colorResult", [available |-> ~taken], FALSE, FALSE)

ColorCheck(c, color) ==
    /\ conn[c].kind = "check"
    /\ used.checks < limit.checks
    /\ out' = <<colorResult(heap[conn[c].obj], color)>>
    /\ used' = [used EXCEPT !.checks = @ + 1]
    /\ last' = "colorResult"
    /\ UNCHANGED <<sessions, alloc, heap, conn, opened, idle, limit, expect, tally>>

\* case "cameraFrame": attached tells whether the message carries a health value
cameraFrame(s, u, attached, health) ==
    LET s1 == [s EXCEPT !.latestFrames = @ \cup {u}]
    IN  IF attached /\ HasPlayer(s1.players, u)
        THEN [s1 EXCEPT !.players[IndexOf(s1.players, u)].health = health]
        ELSE s1

\* health: session.players[user]?.health || 100
batchHealth(s, u) ==
    IF HasPlayer(s.players, u) /\ s.players[IndexOf(s.players, u)].health # 0
    THEN s.players[IndexOf(s.players, u)].health
    ELSE START_HEALTH

cameraFramesBatch(s) ==
    Msg("cameraFramesBatch", {[username |-> u, health |-> batchHealth(s, u)] : u \in s.latestFrames},
        FALSE, TRUE)

CameraFrame(c, attached, health) ==
    /\ Player(c)
    /\ used.frames < limit.frames
    /\ LET o == conn[c].obj
           s == cameraFrame(heap[o], conn[c].username, attached, health)
       IN  /\ heap' = [heap EXCEPT ![o] = s]
           /\ out' = <<cameraFramesBatch(s)>>
           /\ Restart(o, s.players)
    /\ used' = [used EXCEPT !.frames = @ + 1]
    /\ last' = IF attached THEN "cameraFrame:health" ELSE "cameraFrame"
    /\ UNCHANGED <<sessions, alloc, conn, opened, idle, limit>>

\* case "forfeit"
forfeit(s, u) ==
    IF HasPlayer(s.players, u)
    THEN [s EXCEPT !.players[IndexOf(s.players, u)].health = 0,
                   !.players[IndexOf(s.players, u)].points = 0]
    ELSE s

Forfeit(c) ==
    /\ Player(c)
    /\ used.forfeits < limit.forfeits
    /\ LET o == conn[c].obj
           s == forfeit(heap[o], conn[c].username)
       IN  /\ heap' = [heap EXCEPT ![o] = s]
           /\ out' = <<Msg("playerForfeited", [forfeitedPlayer |-> conn[c].username], TRUE, TRUE),
                       broadcastPlayerList(s)>>
           /\ Restart(o, s.players)
    /\ used' = [used EXCEPT !.forfeits = @ + 1]
    /\ last' = "forfeit"
    /\ UNCHANGED <<sessions, alloc, conn, opened, idle, limit>>

\* ------------------------------------------------------------ close handlers
\* A session object no registry entry and no open connection refers to is garbage.
Garbage(o, reg, cn) ==
    /\ \A sid \in SessionIds : reg[sid] # o
    /\ \A c \in ConnIds : cn[c].obj # o

ClosePlayer(c) ==
    /\ Player(c)
    /\ used.closes < limit.closes
    /\ LET o == conn[c].obj
           s == closePlayer(heap[o], conn[c].username, conn[c].isTeamMode, conn[c].teamId)
           cn == [conn EXCEPT ![c] = ClosedConn]
           free == Garbage(o, sessions, cn)
       IN  /\ conn' = cn
           /\ heap' = [heap EXCEPT ![o] = IF free THEN BlankSession ELSE s]
           /\ alloc' = IF free THEN alloc \ {o} ELSE alloc
           /\ idle' = IF free THEN [idle EXCEPT ![o] = 0] ELSE idle
           /\ Restart(o, IF free THEN <<>> ELSE s.players)
           /\ out' = closeMessages(s, conn[c].username)
    /\ used' = [used EXCEPT !.closes = @ + 1]
    /\ last' = "close"
    /\ UNCHANGED <<sessions, opened, limit>>

CloseSpectator(c) ==
    /\ conn[c].kind = "spectator"
    /\ used.closes < limit.closes
    /\ LET o == conn[c].obj
           s == [heap[o] EXCEPT !.spectators = @ \ {c}]
           cn == [conn EXCEPT ![c] = ClosedConn]
           free == Garbage(o, sessions, cn)
       IN  /\ conn' = cn
           /\ heap' = [heap EXCEPT ![o] = IF free THEN BlankSession ELSE s]
           /\ alloc' = IF free THEN alloc \ {o} ELSE alloc
           /\ idle' = IF free THEN [idle EXCEPT ![o] = 0] ELSE idle
    /\ used' = [used EXCEPT !.closes = @ + 1]
    /\ out' = <<>>
    /\ last' = "closeSpectator"
    /\ UNCHANGED <<sessions, opened, limit, expect, tally>>

\* A colour-check connection closes: it has no close handler, its closure is released.
CloseCheck(c) ==
    /\ conn[c].kind = "check"
    /\ used.closes < limit.closes
    /\ LET o == conn[c].obj
           cn == [conn EXCEPT ![c] = ClosedConn]
           free == Garbage(o, sessions, cn)
       IN  /\ conn' = cn
           /\ heap' = [heap EXCEPT ![o] = IF free THEN BlankSession ELSE @]
           /\ alloc' = IF free THEN alloc \ {o} ELSE alloc
           /\ idle' = IF free THEN [idle EXCEPT ![o] = 0] ELSE idle
           /\ expect' = IF free THEN [expect EXCEPT ![o] = <<>>] ELSE expect
    /\ used' = [used EXCEPT !.closes = @ + 1]
    /\ out' = <<>>
    /\ last' = "closeCheck"
    /\ UNCHANGED <<sessions, opened, limit, tally>>

\* ------------------------------------------------------------ the interval callback
\* for (let session of Object.values(appData.sessions)): the sessions in registry order
SessionOrder == <<"abcd">>

tickSessionOf(v, s, g) == IF v = "srv" THEN srvTickSession(s, g) ELSE tickSession(s, g)

\* server.js leaves the callback with return, part_001 goes on with continue
stopsOnDelete(v) == v = "srv"

\* The loop from the k-th session of order on. R carries the registry, the heap and the messages
\* sent so far; g gives every session the outcome of its players' random draws.
RECURSIVE tickOver(_, _, _, _, _)
tickOver(v, order, k, R, g) ==
    IF k > Len(order) THEN R
    ELSE LET sid == order[k]
             o == R.sessions[sid]
         IN  IF o = 0 THEN tickOver(v, order, k + 1, R, g)
             ELSE LET s == R.heap[o]
                      r == tickSessionOf(v, s, g[sid])
                      reg == [R.sessions EXCEPT ![sid] = 0]
                      free == Garbage(o, reg, conn)
                      gone == [R EXCEPT !.sessions = reg,
                                        !.alloc = IF free THEN @ \ {o} ELSE @,
                                        !.heap[o] = IF free THEN BlankSession ELSE r.s,
                                        !.idle[o] = IF free THEN 0 ELSE @,
                                        !.expect[o] = IF free THEN <<>> ELSE @,
                                        !.out = @ \o r.out]
                      kept == [R EXCEPT !.heap[o] = r.s,
                                        !.idle[o] = IF isEmpty(s) THEN @ + 1 ELSE 0,
                                        !.expect[o] = IF s.state = "game"
                                                      THEN tickPlayers(@, g[sid]) ELSE @,
                                        !.out = @ \o r.out]
                  IN  IF r.deleted
                      THEN (IF stopsOnDelete(v) THEN gone ELSE tickOver(v, order, k + 1, gone, g))
                      ELSE tickOver(v, order, k + 1, kept, g)

tickFrom(v, k, R, g) == tickOver(v, SessionOrder, k, R, g)

GrantSeqs == UNION {[1..n -> GrantChoices] : n \in 0..MaxConns}

GrantsOf(sid) ==
    IF sessions[sid] # 0 /\ heap[sessions[sid]].state = "game"
    THEN [1..Len(heap[sessions[sid]].players) -> GrantChoices]
    ELSE {<<>>}

RECURSIVE CountGrants(_, _)
CountGrants(g, k) ==
    IF k > Len(SessionOrder) THEN 0
    ELSE Cardinality({i \in DOMAIN g[SessionOrder[k]] : g[SessionOrder[k]][i] # "none"})
         + CountGrants(g, k + 1)

Tick(v) ==
    /\ used.ticks < limit.ticks
    /\ \E g \in [SessionIds -> GrantSeqs] :
        /\ \A sid \in SessionIds : g[sid] \in GrantsOf(sid)
        /\ used.grants + CountGrants(g, 1) <= limit.grants
        /\ LET R == tickFrom(v, 1, [sessions |-> sessions, alloc |-> alloc, heap |-> heap,
                                    idle |-> idle, expect |-> expect, out |-> <<>>], g)
           IN  /\ sessions' = R.sessions
               /\ alloc' = R.alloc
               /\ heap' = R.heap
               /\ idle' = R.idle
               /\ expect' = R.expect
               /\ tally' = {h \in tally : h[1] \in R.alloc}
               /\ out' = R.out
        /\ used' = [used EXCEPT !.ticks = @ + 1, !.grants = @ + CountGrants(g, 1)]
    /\ last' = "tick"
    /\ UNCHANGED <<conn, opened, limit>>

\* ------------------------------------------------------------ specification
NoLimit ==
    [conns |-> 0, closes |-> 0, ticks |-> 0, hits |-> 0, grants |-> 0, frames |-> 0,
     forfeits |-> 0, starts |-> 0, rejoins |-> 0, sweeps |-> 0, checks |-> 0]

\* A behaviour that starts with the server: connections come and go.
RosterLimit == [NoLimit EXCEPT !.conns = MaxConns, !.closes = MaxConns, !.ticks = 1]

\* A behaviour that starts with a session about to expire.
ClockLimit == [NoLimit EXCEPT !.conns = 1, !.closes = 1, !.ticks = MaxTicks]

\* Behaviours that start with MaxConns players in a session.
DuelLimit ==
    [NoLimit EXCEPT !.starts = MaxStarts, !.hits = MaxHits, !.ticks = 1, !.grants = MaxGrants]

FrameLimit ==
    [NoLimit EXCEPT !.starts = MaxStarts, !.hits = 1, !.ticks = 1, !.frames = MaxFrames]

\* A client reports its health, a powerup is granted and a hit follows.
InstaLimit ==
    [NoLimit EXCEPT !.starts = MaxStarts, !.frames = MaxFrames, !.ticks = 1, !.grants = MaxGrants,
                    !.hits = 1]

\* A behaviour that starts with a colour-check connection open on a session about to expire.
CheckLimit == [NoLimit EXCEPT !.conns = 1, !.closes = 1, !.ticks = MaxTicks, !.checks = MaxChecks]

QuitLimit ==
    [NoLimit EXCEPT !.hits = 1, !.ticks = 1, !.forfeits = MaxForfeits, !.closes = 1]

\* The admin sends startGame again, in a match or after it.
ReplayLimit == [NoLimit EXCEPT !.starts = MaxRestarts, !.ticks = 2]

NoConns == [c \in ConnIds |-> BlankConn]

Zero ==
    /\ out = <<>>
    /\ last = "init"
    /\ used = NoLimit
    /\ expect = [o \in ObjIds |-> IF o \in alloc THEN heap[o].players ELSE <<>>]
    /\ tally = {}

\* The server has just started.
InitStart ==
    /\ sessions = [sid \in SessionIds |-> 0]
    /\ alloc = {}
    /\ heap = [o \in ObjIds |-> BlankSession]
    /\ idle = [o \in ObjIds |-> 0]
    /\ conn = NoConns
    /\ opened = 0

\* A session that a rejected connection created and that 298 ticks have found empty.
InitIdle ==
    /\ limit = ClockLimit
    /\ sessions = [sid \in SessionIds |-> 1]
    /\ alloc = {1}
    /\ \E m \in {"solo", "team"} :
          heap = [o \in ObjIds |-> IF o = 1 THEN [createSession("abcd", m) EXCEPT !.persistTime = 2]
                                   ELSE BlankSession]
    /\ idle = [o \in ObjIds |-> IF o = 1 THEN SESSION_PERSIST_TIME - 2 ELSE 0]
    /\ conn = NoConns
    /\ opened = 0

\* A session that a colour-check connection created, and still refers to, and that 298
\* ticks have found empty.
InitChecked ==
    /\ limit = CheckLimit
    /\ sessions = [sid \in SessionIds |-> 1]
    /\ alloc = {1}
    /\ \E m \in {"solo", "team"} :
          heap = [o \in ObjIds |-> IF o = 1 THEN [createSession("abcd", m) EXCEPT !.persistTime = 2]
                                   ELSE BlankSession]
    /\ idle = [o \in ObjIds |-> IF o = 1 THEN SESSION_PERSIST_TIME - 2 ELSE 0]
    /\ conn = [c \in ConnIds |->
                IF c = 1 THEN [BlankConn EXCEPT !.kind = "check", !.obj = 1] ELSE BlankConn]
    /\ opened = 1

\* The sessions that connections k..Len(req) leave when they join s one after the other,
\* the k-th asking for req[k] = <<name, colour, team>>.
RECURSIVE Joined(_, _, _, _)
Joined(s, req, k, isTeamMode) ==
    IF k > Len(req) THEN {s}
    ELSE UNION {Joined(joinPlayer(s, k, u, req[k][2], isTeamMode, req[k][3]), req, k + 1, isTeamMode)
                : u \in UniqueNames(s.players, req[k][1], MaxConns)}

\* cable (red, team 1) and zeke (blue, team 2), then further cables (blue, team 1)
PlayRequests ==
    [k \in 1..MaxConns |->
        IF k = 1 THEN <<"cable", "red", "1">>
        ELSE IF k = 2 THEN <<"zeke", "blue", "2">>
        ELSE <<"cable", "blue", "1">>]

\* MaxConns players have joined a new session over the same path.
InitPlay ==
    /\ limit \in {DuelLimit, FrameLimit, InstaLimit, QuitLimit, ReplayLimit}
    /\ sessions = [sid \in SessionIds |-> 1]
    /\ alloc = {1}
    /\ \E pm \in PathModes :
        \E s \in Joined(createSession("abcd", sessionMode(pm)), PlayRequests, 1, pm = "team-session") :
            /\ heap = [o \in ObjIds |-> IF o = 1 THEN s ELSE BlankSession]
            /\ conn = [c \in ConnIds |->
                        [kind |-> "player", obj |-> 1, username |-> s.players[c].username,
                         teamId |-> s.players[c].teamId, isTeamMode |-> pm = "team-session"]]
    /\ idle = [o \in ObjIds |-> 0]
    /\ opened = MaxConns

\* The last second of a match of MaxConns players in which nobody was hit.
InitLastSecond ==
    /\ limit = ReplayLimit
    /\ sessions = [sid \in SessionIds |-> 1]
    /\ alloc = {1}
    /\ \E pm \in PathModes :
        \E s \in Joined(createSession("abcd", sessionMode(pm)), PlayRequests, 1, pm = "team-session") :
            /\ heap = [o \in ObjIds |->
                        IF o = 1 THEN [s EXCEPT !.state = "game", !.timeLeft = 1] ELSE BlankSession]
            /\ conn = [c \in ConnIds |->
                        [kind |-> "player", obj |-> 1, username |-> s.players[c].username,
                         teamId |-> s.players[c].teamId, isTeamMode |-> pm = "team-session"]]
    /\ idle = [o \in ObjIds |-> 0]
    /\ opened = MaxConns

\* A player's client reports a low health, the player is hit, and the client reports again.
ReviveLimit == [NoLimit EXCEPT !.hits = MaxHits, !.frames = MaxFrames]

\* A match of MaxConns players in which zeke's client has reported a health of 20.
InitWounded ==
    /\ limit = ReviveLimit
    /\ sessions = [sid \in SessionIds |-> 1]
    /\ alloc = {1}
    /\ \E pm \in PathModes :
        \E s \in Joined(createSession("abcd", sessionMode(pm)), PlayRequests, 1, pm = "team-session") :
            /\ heap = [o \in ObjIds |->
                        IF o = 1
                        THEN cameraFrame(startGame(s, s.admin, pm = "team-session").s, "zeke", TRUE, 20)
                        ELSE BlankSession]
            /\ conn = [c \in ConnIds |->
                        [kind |-> "player", obj |-> 1, username |-> s.players[c].username,
                         teamId |-> s.players[c].teamId, isTeamMode |-> pm = "team-session"]]
    /\ idle = [o \in ObjIds |-> 0]
    /\ opened = MaxConns

Init ==
    /\ \/ InitStart /\ limit = RosterLimit
       \/ InitIdle
       \/ InitChecked
       \/ InitPlay
       \/ InitLastSecond
       \/ InitWounded
    /\ Zero

Connect ==
    \E sid \in SessionIds, pm \in PathModes :
        \/ \E name \in Names, team \in TeamIds : ConnectPlayer(sid, pm, name, "red", team)
        \/ ConnectSpectator(sid, pm)
        \/ ConnectColorCheck(sid, pm)
        \/ ConnectRejected(sid, pm)

Message(v) ==
    \E c \in ConnIds :
        \/ StartGame(v, c)
        \/ \E color \in HitColors, weapon \in Weapons : Hit(v, c, color, weapon)
        \/ \E health \in ClientHealths : CameraFrame(c, TRUE, health)
        \/ CameraFrame(c, FALSE, 0)
        \/ Forfeit(c)
        \/ \E color \in HitColors : ColorCheck(c, color)

Close == \E c \in ConnIds : ClosePlayer(c) \/ CloseSpectator(c) \/ CloseCheck(c)

Next == Connect \/ Message("ws") \/ Close \/ Tick("ws")

Spec == Init /\ [][Next]_vars

\* ------------------------------------------------------------ server.js specification
\* server.js's handlers. Its connection and close handlers do to a session what those of
\* part_001 do on the "session" path: the same lookup-or-create before validation, the
\* same uniqueness loop, admin rule, player record and messages. Its cameraFrame
\* branch is that of part_001. Its forfeit, playerPosition and sound-preference messages
\* write fields of player records only (never the roster, admin, state, timeLeft or
\* persistTime) and are not taken here.
SrvConnect ==
    \E sid \in SessionIds :
        \/ \E name \in Names : ConnectPlayer(sid, "session", name, "red", Null)
        \/ ConnectSpectator(sid, "session")
        \/ ConnectRejected(sid, "session")

SrvStartGame == \E c \in ConnIds : StartGame("srv", c)

SrvClose == \E c \in ConnIds : ClosePlayer(c) \/ CloseSpectator(c)

SrvTick == Tick("srv")

SrvHit == \E c \in ConnIds, color \in HitColors, weapon \in Weapons : Hit("srv", c, color, weapon)

SrvCameraFrame ==
    \E c \in ConnIds :
        \/ \E health \in ClientHealths : CameraFrame(c, TRUE, health)
        \/ CameraFrame(c, FALSE, 0)

SrvRosterLimit ==
    [NoLimit EXCEPT !.conns = MaxConns, !.closes = MaxConns, !.ticks = 1, !.starts = MaxStarts]

\* A session whose only connection, a spectator, has been there for 298 ticks.
InitWatched ==
    /\ limit = ClockLimit
    /\ sessions = [sid \in SessionIds |-> 1]
    /\ alloc = {1}
    /\ heap = [o \in ObjIds |->
                IF o = 1 THEN [createSession("abcd", "solo") EXCEPT !.persistTime = 2, !.spectators = {1}]
                ELSE BlankSession]
    /\ idle = [o \in ObjIds |-> 0]
    /\ conn = [c \in ConnIds |->
                IF c = 1 THEN [BlankConn EXCEPT !.kind = "spectator", !.obj = 1] ELSE BlankConn]
    /\ opened = 1

\* MaxConns players have joined a new session of server.js.
InitSrvPlay ==
    /\ limit \in {DuelLimit, InstaLimit}
    /\ sessions = [sid \in SessionIds |-> 1]
    /\ alloc = {1}
    /\ \E s \in Joined(createSession("abcd", "solo"), PlayRequests, 1, FALSE) :
            /\ heap = [o \in ObjIds |-> IF o = 1 THEN s ELSE BlankSession]
            /\ conn = [c \in ConnIds |->
                        [kind |-> "player", obj |-> 1, username |-> s.players[c].username,
                         teamId |-> s.players[c].teamId, isTeamMode |-> FALSE]]
    /\ idle = [o \in ObjIds |-> 0]
    /\ opened = MaxConns

\* A powerup is granted in the last seconds of a match.
SrvEndLimit == [NoLimit EXCEPT !.ticks = 2, !.grants = MaxGrants]

\* The last two seconds of a match of MaxConns players of server.js in which nobody was hit.
InitSrvLastSeconds ==
    /\ limit = SrvEndLimit
    /\ sessions = [sid \in SessionIds |-> 1]
    /\ alloc = {1}
    /\ \E s \in Joined(createSession("abcd", "solo"), PlayRequests, 1, FALSE) :
            /\ heap = [o \in ObjIds |->
                        IF o = 1 THEN [s EXCEPT !.state = "game", !.timeLeft = 2] ELSE BlankSession]
            /\ conn = [c \in ConnIds |->
                        [kind |-> "player", obj |-> 1, username |-> s.players[c].username,
                         teamId |-> s.players[c].teamId, isTeamMode |-> FALSE]]
    /\ idle = [o \in ObjIds |-> 0]
    /\ opened = MaxConns

SrvInit ==
    ((InitStart /\ limit = SrvRosterLimit) \/ InitWatched \/ InitSrvPlay \/ InitSrvLastSeconds) /\ Zero

SrvNext == SrvConnect \/ SrvStartGame \/ SrvClose \/ SrvTick \/ SrvHit \/ SrvCameraFrame

SpecSrv == SrvInit /\ [][SrvNext]_vars

\* ------------------------------------------------------------ part_000 (Socket.IO)
\* The Socket.IO server of part_000. Its cameraFrame handler forwards the frame and
\* writes nothing; the other handlers follow.
IO_GAME_TIME == 300
IO_START_POINTS == 50
IO_HIT_DAMAGE == 10

\* session = { id, teams: {}, players: {}, admin: null, mode: "team" }; timeLeft 0 stands
\* for the unset field and intervals counts the session's running setInterval timers
ioNewSession(gameCode) ==
    [id |-> gameCode, mode |-> "team", admin |-> Null, players |-> <<>>, teams |-> EmptyTeams,
     timeLeft |-> 0, timer |-> FALSE, intervals |-> 0]

ioNewPlayer(c, u, color, teamId) ==
    [socketId |-> c, username |-> u, color |-> color, teamId |-> teamId,
     hitsGiven |-> 0, hitsTaken |-> 0, points |-> IO_START_POINTS]

InSeq(seq, x) == \E k \in 1..Len(seq) : seq[k] = x

\* session.players[username] = {...}: a key that exists keeps its place
ioSetPlayer(players, p) ==
    IF HasPlayer(players, p.username)
    THEN [players EXCEPT ![IndexOf(players, p.username)] = p]
    ELSE Append(players, p)

\* if (!session.teams[teamId].includes(username)) session.teams[teamId].push(username)
ioTeamPush(teams, teamId, u) ==
    IF teamId \in DOMAIN teams /\ InSeq(teams[teamId], u) THEN teams
    ELSE teamPush(teams, teamId, u)

\* The join part of the connection handler.
ioJoin(s, c, u, color, teamId) ==
    LET s1 == [s EXCEPT !.players = ioSetPlayer(@, ioNewPlayer(c, u, color, teamId)),
                        !.teams = ioTeamPush(@, teamId, u)]
    IN  setAdmin(s1, u)

\* The broadcasts read session.players[username].color for every listed username: they
\* throw a TypeError when a team lists a username that is no key of the player map.
ioCanList(s) ==
    \A tm \in DOMAIN s.teams : \A k \in 1..Len(s.teams[tm]) : HasPlayer(s.players, s.teams[tm][k])

ioBroadcastPlayerList(s) ==
    Msg("playerListUpdate",
        [teams |-> {[teamId |-> tm,
                     players |-> [k \in 1..Len(s.teams[tm]) |->
                                    [username |-> s.teams[tm][k],
                                     color |-> s.players[IndexOf(s.players, s.teams[tm][k])].color]]]
                    : tm \in DOMAIN s.teams},
         admin |-> s.admin], TRUE, FALSE)

ioBroadcastGameUpdate(s) ==
    Msg("gameUpdate",
        [teams |-> {[teamId |-> tm,
                     players |-> [k \in 1..Len(s.teams[tm]) |->
                        LET q == s.players[IndexOf(s.players, s.teams[tm][k])]
                        IN  [username |-> q.username, color |-> q.color,
                             points |-> IF q.points = 0 THEN IO_START_POINTS ELSE q.points,
                             hitsGiven |-> q.hitsGiven, hitsTaken |-> q.hitsTaken]]]
                    : tm \in DOMAIN s.teams},
         timeLeft |-> IF s.timeLeft = 0 THEN IO_GAME_TIME ELSE s.timeLeft], TRUE, FALSE)

\* The messages a handler sends when it ends with the broadcasts named in kinds, or none
\* and the mark of the exception when they throw.
ioSend(s, before, kinds, after) ==
    IF ioCanList(s)
    THEN [threw |-> FALSE,
          out |-> before
                  \o (IF "list" \in kinds THEN <<ioBroadcastPlayerList(s)>> ELSE <<>>)
                  \o (IF "update" \in kinds THEN <<ioBroadcastGameUpdate(s)>> ELSE <<>>)
                  \o after]
    ELSE [threw |-> TRUE, out |-> before]

\* An uncaught exception in a handler ends the server process.
Running == last # "threw"

\* A session object with a running timer is referred to by the timer's closure.
ioGarbage(o, s, reg, cn) == Garbage(o, reg, cn) /\ s.intervals = 0

\* The heap after a handler left session object o as s, under registry reg and
\* connections cn.
ioStore(o, s, reg, cn) ==
    /\ heap' = [heap EXCEPT ![o] = IF ioGarbage(o, s, reg, cn) THEN BlankSession ELSE s]
    /\ alloc' = IF ioGarbage(o, s, reg, cn) THEN alloc \ {o} ELSE alloc \cup {o}

IoConnect(gameCode, name, color, teamId) ==
    /\ Running
    /\ used.conns < limit.conns
    /\ LET c == opened + 1
           o == IF sessions[gameCode] # 0 THEN sessions[gameCode] ELSE FreeObj
           s0 == IF sessions[gameCode] # 0 THEN heap[o] ELSE ioNewSession(gameCode)
           s == ioJoin(s0, c, name, color, teamId)
           r == ioSend(s, <<>>, {"list", "update"}, <<>>)
           cn == [conn EXCEPT ![c] = [kind |-> "player", obj |-> o, username |-> name,
                                      teamId |-> teamId, isTeamMode |-> TRUE]]
       IN  /\ sessions' = [sessions EXCEPT ![gameCode] = o]
           /\ conn' = cn
           /\ ioStore(o, s, sessions', cn)
           /\ out' = r.out
           /\ last' = IF r.threw THEN "threw" ELSE "join"
    /\ opened' = opened + 1
    /\ used' = [used EXCEPT !.conns = @ + 1]
    /\ UNCHANGED <<idle, limit, expect, tally>>

\* A connection without gameCode, username, color or teamId is told so and disconnected.
IoConnectRejected ==
    /\ Running
    /\ used.conns < limit.conns
    /\ conn' = [conn EXCEPT ![opened + 1] = ClosedConn]
    /\ opened' = opened + 1
    /\ used' = [used EXCEPT !.conns = @ + 1]
    /\ out' = <<Msg("error", <<>>, FALSE, FALSE)>>
    /\ last' = "rejected"
    /\ UNCHANGED <<sessions, alloc, heap, idle, limit, expect, tally>>

\* A bug: startGame starts a timer without clearing the one that runs.
ioStartGameNoClear(s, u) ==
    IF s.admin # u THEN [s |-> s, r |-> [threw |-> FALSE, out |-> <<>>]]
    ELSE LET s1 == [s EXCEPT !.players = [i \in 1..Len(@) |->
                                [@[i] EXCEPT !.points = IO_START_POINTS, !.hitsGiven = 0,
                                             !.hitsTaken = 0]]]
             s2 == [s1 EXCEPT !.timeLeft = IO_GAME_TIME, !.timer = TRUE, !.intervals = @ + 1]
         IN  [s |-> s2, r |-> ioSend(s2, <<>>, {"update"}, <<Msg("startGame", <<>>, TRUE, FALSE)>>)]

\* socket.on("startGame")
ioStartGame(s, u) ==
    IF s.admin # u THEN [s |-> s, r |-> [threw |-> FALSE, out |-> <<>>]]
    ELSE LET s1 == [s EXCEPT !.players = [i \in 1..Len(@) |->
                                [@[i] EXCEPT !.points = IO_START_POINTS, !.hitsGiven = 0,
                                             !.hitsTaken = 0]],
                             !.intervals = IF s.timer THEN @ - 1 ELSE @]
             s2 == [s1 EXCEPT !.timeLeft = IO_GAME_TIME, !.timer = TRUE, !.intervals = @ + 1]
         IN  [s |-> s2, r |-> ioSend(s2, <<>>, {"update"}, <<Msg("startGame", <<>>, TRUE, FALSE)>>)]

IoStartGame(c) ==
    /\ Running
    /\ Player(c)
    /\ used.starts < limit.starts
    /\ LET o == conn[c].obj
           g == ioStartGame(heap[o], conn[c].username)
       IN  /\ ioStore(o, g.s, sessions, conn)
           /\ out' = g.r.out
           /\ last' = IF g.r.threw THEN "threw"
                      ELSE IF conn[c].username = heap[o].admin THEN "startGame:admin"
                      ELSE "startGame:other"
    /\ used' = [used EXCEPT !.starts = @ + 1]
    /\ UNCHANGED <<sessions, conn, opened, idle, limit, expect, tally>>

\* socket.on("hit"): attackerTeamId is the team the message names
ioHit(s, u, color, attackerTeamId, weapon) ==
    LET tg == FirstWithColor(s.players, color)
        quiet == [s |-> s, r |-> [threw |-> FALSE, out |-> <<>>]]
    IN  IF tg = 0 THEN quiet
        ELSE IF s.players[tg].teamId = attackerTeamId THEN quiet
        ELSE IF ~HasPlayer(s.players, u) THEN [s |-> s, r |-> [threw |-> TRUE, out |-> <<>>]]
        ELSE LET p1 == [s.players EXCEPT ![IndexOf(s.players, u)].hitsGiven = @ + 1]
                 p2 == [p1 EXCEPT ![tg].hitsTaken = @ + 1]
                 p3 == [p2 EXCEPT ![tg].points = Max(0, @ - IO_HIT_DAMAGE)]
                 s1 == [s EXCEPT !.players = p3]
             IN  [s |-> s1,
                  r |-> ioSend(s1, <<Msg("hit", [player |-> u, target |-> p3[tg].username,
                                                 weapon |-> weapon], TRUE, FALSE)>>,
                               {"update"}, <<>>)]

IoHit(c, color, attackerTeamId, weapon) ==
    /\ Running
    /\ Player(c)
    /\ used.hits < limit.hits
    /\ LET o == conn[c].obj
           g == ioHit(heap[o], conn[c].username, color, attackerTeamId, weapon)
       IN  /\ ioStore(o, g.s, sessions, conn)
           /\ out' = g.r.out
           /\ last' = IF g.r.threw THEN "threw" ELSE "hit"
    /\ used' = [used EXCEPT !.hits = @ + 1]
    /\ UNCHANGED <<sessions, conn, opened, idle, limit, expect, tally>>

\* socket.on("disconnect"), up to the clean-up of the registry
ioDisconnect(s, u, teamId) ==
    LET s1 == [s EXCEPT !.teams = teamRemove(@, teamId, u),
                        !.players = SelectSeq(@, LAMBDA p : p.username # u)]
    IN  updateAdmin(s1, u)

IoDisconnect(c) ==
    /\ Running
    /\ Player(c)
    /\ used.closes < limit.closes
    /\ LET o == conn[c].obj
           s == ioDisconnect(heap[o], conn[c].username, conn[c].teamId)
           r == IF Len(s.players) = 0 THEN [threw |-> FALSE, out |-> <<>>]
                ELSE ioSend(s, <<>>, {"list", "update"}, <<>>)
           cn == [conn EXCEPT ![c] = ClosedConn]
       IN  /\ sessions' = IF Len(s.players) = 0 THEN [sessions EXCEPT ![s.id] = 0] ELSE sessions
           /\ conn' = cn
           /\ ioStore(o, s, sessions', cn)
           /\ out' = r.out
           /\ last' = IF r.threw THEN "threw" ELSE "close"
    /\ used' = [used EXCEPT !.closes = @ + 1]
    /\ UNCHANGED <<opened, idle, limit, expect, tally>>

\* The callback of a session's interval timer.
ioTimer(s) ==
    LET s1 == IF s.timeLeft > 0 THEN [s EXCEPT !.timeLeft = @ - 1] ELSE s
        r1 == IF s.timeLeft > 0 THEN ioSend(s1, <<>>, {"update"}, <<>>)
              ELSE [threw |-> FALSE, out |-> <<>>]
    IN  IF r1.threw THEN [s |-> s1, r |-> r1]
        ELSE IF s1.timeLeft <= 0
        THEN LET s2 == [s1 EXCEPT !.timer = FALSE, !.intervals = @ - 1]
             IN  [s |-> s2, r |-> ioSend(s2, r1.out, {"update"}, <<>>)]
        ELSE [s |-> s1, r |-> r1]

IoTimer(o) ==
    /\ Running
    /\ o \in alloc
    /\ heap[o].intervals > 0
    /\ used.ticks < limit.ticks
    /\ LET g == ioTimer(heap[o])
       IN  /\ ioStore(o, g.s, sessions, conn)
           /\ out' = g.r.out
           /\ last' = IF g.r.threw THEN "threw" ELSE "tick"
    /\ used' = [used EXCEPT !.ticks = @ + 1]
    /\ UNCHANGED <<sessions, conn, opened, idle, limit, expect, tally>>

IoLimit ==
    [NoLimit EXCEPT !.conns = MaxConns, !.closes = MaxConns, !.starts = MaxStarts, !.hits = 1,
                    !.ticks = 1]

\* The admin starts the game again while it runs.
IoRestartLimit == [NoLimit EXCEPT !.conns = 2, !.starts = MaxRestarts, !.ticks = 2]

\* Two players exchange hits.
IoDuelLimit == [NoLimit EXCEPT !.hits = 2]

\* The session after n pistol hits of cable (team 1) on blue.
RECURSIVE ioHitTimes(_, _)
ioHitTimes(s, n) ==
    IF n = 0 THEN s ELSE ioHitTimes(ioHit(s, "cable", "blue", "1", "pistol").s, n - 1)

\* cable (red, team 1) and zeke (blue, team 2) have joined and cable has hit zeke
\* WornHits times.
InitIoWorn ==
    /\ limit = IoDuelLimit
    /\ sessions = [sid \in SessionIds |-> 1]
    /\ alloc = {1}
    /\ heap = [o \in ObjIds |->
                IF o = 1
                THEN ioHitTimes(ioJoin(ioJoin(ioNewSession("abcd"), 1, "cable", "red", "1"),
                                       2, "zeke", "blue", "2"), WornHits)
                ELSE BlankSession]
    /\ conn = [c \in ConnIds |->
                IF c = 1 THEN [kind |-> "player", obj |-> 1, username |-> "cable",
                               teamId |-> "1", isTeamMode |-> TRUE]
                ELSE IF c = 2 THEN [kind |-> "player", obj |-> 1, username |-> "zeke",
                                    teamId |-> "2", isTeamMode |-> TRUE]
                ELSE BlankConn]
    /\ idle = [o \in ObjIds |-> 0]
    /\ opened = 2

IoInit == ((InitStart /\ limit \in {IoLimit, IoRestartLimit}) \/ InitIoWorn) /\ Zero

IoNext ==
    \/ \E gameCode \in SessionIds, name \in Names, color \in Colors, teamId \in TeamIds :
            IoConnect(gameCode, name, color, teamId)
    \/ IoConnectRejected
    \/ \E c \in ConnIds :
        \/ IoStartGame(c)
        \/ \E color \in HitColors, teamId \in TeamIds, weapon \in Weapons : IoHit(c, color, teamId, weapon)
        \/ IoDisconnect(c)
    \/ \E o \in ObjIds : IoTimer(o)

SpecIO == IoInit /\ [][IoNext]_vars

\* ------------------------------------------------------------ part_002 (GameSession)
\* The GameSession server of part_002. Its requestTeamList, playerPosition and
\* cameraFrame cases only send; the other handlers follow.
GS_GAME_TIME == 180
GS_START_POINTS == 100
GS_START_HEALTH == 100
GS_MIN_HEALTH == 10
GS_POINTS_LOST == 10
GS_POINTS_WON == 20
GS_HEAL == 5
GS_SNIPER == 20
GS_SHOTGUN == 15
GS_OTHER == 10

\* new GameSession(gameCode); teams is the Map in insertion order and intervals counts
\* the running game timers
GameSession(gameCode) ==
    [id |-> gameCode, players |-> <<>>, teams |-> <<>>, admin |-> Null, state |-> "lobby",
     timeLeft |-> GS_GAME_TIME, timer |-> FALSE, intervals |-> 0]

gsPlayer(c, u, color, teamId) ==
    [username |-> u, color |-> color, teamId |-> teamId, ws |-> c, points |-> GS_START_POINTS,
     hitsGiven |-> 0, hitsTaken |-> 0, health |-> GS_START_HEALTH]

gsMember(u, color) ==
    [username |-> u, color |-> color, points |-> GS_START_POINTS, hitsGiven |-> 0,
     hitsTaken |-> 0, health |-> GS_START_HEALTH]

RECURSIVE SumPoints(_)
SumPoints(members) ==
    IF members = <<>> THEN 0 ELSE Head(members).points + SumPoints(Tail(members))

\* team.score = team.players.reduce((sum, p) => sum + p.points, 0)
gsScore(team) == [team EXCEPT !.score = SumPoints(team.players)]

\* The position of team teamId in the Map, 0 when it has none.
gsTeamAt(teams, teamId) ==
    IF \E k \in 1..Len(teams) : teams[k].teamId = teamId
    THEN CHOOSE k \in 1..Len(teams) : teams[k].teamId = teamId
    ELSE 0

\* The position of username u in a member list, 0 when it is not listed.
gsMemberAt(members, u) ==
    IF \E k \in 1..Len(members) : members[k].username = u
    THEN CHOOSE k \in 1..Len(members) : members[k].username = u /\ \A j \in 1..(k - 1) : members[j].username # u
    ELSE 0

\* this.teams.values() and this.players.values() as a gameUpdate lists them
gsTeamUpdate(s) ==
    Msg("gameUpdate",
        [teams |-> s.teams,
         players |-> [i \in 1..Len(s.players) |->
                        [username |-> s.players[i].username, color |-> s.players[i].color,
                         points |-> s.players[i].points, hitsGiven |-> s.players[i].hitsGiven,
                         hitsTaken |-> s.players[i].hitsTaken, health |-> s.players[i].health]],
         admin |-> s.admin, state |-> s.state, timeLeft |-> s.timeLeft], TRUE, FALSE)

\* GameSession.addPlayer
addPlayer(s, c, u, color, teamId) ==
    LET s1 == IF s.admin = Null /\ Len(s.players) = 0 THEN [s EXCEPT !.admin = u] ELSE s
        s2 == [s1 EXCEPT !.players = ioSetPlayer(@, gsPlayer(c, u, color, teamId))]
        s3 == IF gsTeamAt(s2.teams, teamId) = 0
              THEN [s2 EXCEPT !.teams = Append(@, [teamId |-> teamId, players |-> <<>>, score |-> 0])]
              ELSE s2
        k == gsTeamAt(s3.teams, teamId)
        s4 == IF gsMemberAt(s3.teams[k].players, u) = 0
              THEN [s3 EXCEPT !.teams[k].players = Append(@, gsMember(u, color))]
              ELSE s3
    IN  [s4 EXCEPT !.teams[k] = gsScore(@)]

\* GameSession.removePlayer, and whether it found the player (and so broadcast)
removePlayer(s, u) ==
    IF ~HasPlayer(s.players, u) THEN [s |-> s, found |-> FALSE]
    ELSE LET k == gsTeamAt(s.teams, s.players[IndexOf(s.players, u)].teamId)
             left == SelectSeq(s.teams[k].players, LAMBDA q : q.username # u)
             s1 == IF k = 0 THEN s
                   ELSE IF left = <<>>
                   THEN [s EXCEPT !.teams = SelectSeq(@, LAMBDA tm : tm.teamId # s.teams[k].teamId)]
                   ELSE [s EXCEPT !.teams[k] = gsScore([@ EXCEPT !.players = left])]
             s2 == [s1 EXCEPT !.players = SelectSeq(@, LAMBDA q : q.username # u)]
             s3 == IF s2.admin = u /\ Len(s2.players) > 0
                   THEN [s2 EXCEPT !.admin = s2.players[1].username] ELSE s2
         IN  [s |-> s3, found |-> TRUE]

gsRemoved(s, u) ==
    LET r == removePlayer(s, u)
    IN  [s |-> r.s, out |-> IF r.found THEN <<gsTeamUpdate(r.s)>> ELSE <<>>]

gsGarbage(o, s, reg, cn) == Garbage(o, reg, cn) /\ s.intervals = 0

gsStore(o, s, reg, cn) ==
    /\ heap' = [heap EXCEPT ![o] = IF gsGarbage(o, s, reg, cn) THEN BlankSession ELSE s]
    /\ alloc' = IF gsGarbage(o, s, reg, cn) THEN alloc \ {o} ELSE alloc \cup {o}

GsConnect(gameCode, name, color, teamId) ==
    /\ used.conns < limit.conns
    /\ LET c == opened + 1
           o == IF sessions[gameCode] # 0 THEN sessions[gameCode] ELSE FreeObj
           s0 == IF sessions[gameCode] # 0 THEN heap[o] ELSE GameSession(gameCode)
           s == addPlayer(s0, c, name, color, teamId)
           cn == [conn EXCEPT ![c] = [kind |-> "player", obj |-> o, username |-> name,
                                      teamId |-> teamId, isTeamMode |-> TRUE, color |-> color]]
       IN  /\ sessions' = [sessions EXCEPT ![gameCode] = o]
           /\ conn' = cn
           /\ gsStore(o, s, sessions', cn)
           /\ out' = <<gsTeamUpdate(s)>>
    /\ opened' = opened + 1
    /\ used' = [used EXCEPT !.conns = @ + 1]
    /\ last' = "join"
    /\ UNCHANGED <<idle, limit, expect, tally>>

\* A connection without gameCode, username, color or teamId is closed.
GsConnectRejected ==
    /\ used.conns < limit.conns
    /\ conn' = [conn EXCEPT ![opened + 1] = ClosedConn]
    /\ opened' = opened + 1
    /\ used' = [used EXCEPT !.conns = @ + 1]
    /\ out' = <<>>
    /\ last' = "rejected"
    /\ UNCHANGED <<sessions, alloc, heap, idle, limit, expect, tally>>

\* GameSession.startGame behind the admin check of case 'startGame'
gsStartGame(s, u) ==
    IF s.admin # u \/ s.state # "lobby" \/ Len(s.teams) = 0 THEN [s |-> s, out |-> <<>>]
    ELSE LET s1 == [s EXCEPT !.state = "game", !.timeLeft = GS_GAME_TIME, !.timer = TRUE,
                             !.intervals = @ + 1]
         IN  [s |-> s1, out |-> <<gsTeamUpdate(s1)>>]

GsStartGame(c) ==
    /\ Player(c)
    /\ used.starts < limit.starts
    /\ LET o == conn[c].obj
           r == gsStartGame(heap[o], conn[c].username)
       IN  /\ gsStore(o, r.s, sessions, conn)
           /\ out' = r.out
           /\ last' = IF conn[c].username = heap[o].admin THEN "startGame:admin" ELSE "startGame:other"
    /\ used' = [used EXCEPT !.starts = @ + 1]
    /\ UNCHANGED <<sessions, conn, opened, idle, limit, expect, tally>>

\* The game timer's callback, with endGame.
gsTimer(s) ==
    LET s1 == [s EXCEPT !.timeLeft = @ - 1]
    IN  IF s1.timeLeft <= 0
        THEN [s1 EXCEPT !.state = "finished", !.timer = FALSE,
                        !.intervals = IF s1.timer THEN @ - 1 ELSE @]
        ELSE s1

GsTimer(o) ==
    /\ o \in alloc
    /\ heap[o].intervals > 0
    /\ used.ticks < limit.ticks
    /\ gsStore(o, gsTimer(heap[o]), sessions, conn)
    /\ out' = <<gsTeamUpdate(gsTimer(heap[o]))>>
    /\ used' = [used EXCEPT !.ticks = @ + 1]
    /\ last' = "tick"
    /\ UNCHANGED <<sessions, conn, opened, idle, limit, expect, tally>>

gsDamage(weapon) ==
    IF weapon = "sniper" THEN GS_SNIPER ELSE IF weapon = "shotgun" THEN GS_SHOTGUN ELSE GS_OTHER

\* The first team, in Map order, that lists a member with the colour: 0 when none does.
gsTargetTeam(teams, color) ==
    IF \E k \in 1..Len(teams) : \E j \in 1..Len(teams[k].players) : teams[k].players[j].color = color
    THEN CHOOSE k \in 1..Len(teams) :
            /\ \E j \in 1..Len(teams[k].players) : teams[k].players[j].color = color
            /\ \A h \in 1..(k - 1) : \A j \in 1..Len(teams[h].players) : teams[h].players[j].color # color
    ELSE 0

gsTargetIn(members, color) ==
    CHOOSE j \in 1..Len(members) :
        members[j].color = color /\ \A h \in 1..(j - 1) : members[h].color # color

\* GameSession.handleHit
gsHandleHit(s, u, color, weapon) ==
    LET k == gsTargetTeam(s.teams, color)
        quiet == [s |-> s, out |-> <<>>]
    IN  IF k = 0 THEN quiet
        ELSE LET j == gsTargetIn(s.teams[k].players, color)
                 target == s.teams[k].players[j]
                 attacker == HasPlayer(s.players, u)
                 attackerTeamId == s.players[IndexOf(s.players, u)].teamId
             IN  IF target.username = u THEN quiet
                 ELSE IF attacker /\ attackerTeamId = s.teams[k].teamId THEN quiet
                 ELSE LET s1 == [s EXCEPT !.teams[k].players[j] =
                                    [@ EXCEPT !.health = Max(GS_MIN_HEALTH, @ - gsDamage(weapon)),
                                              !.hitsTaken = @ + 1,
                                              !.points = Max(0, @ - GS_POINTS_LOST)]]
                          ak == IF attacker THEN gsTeamAt(s1.teams, attackerTeamId) ELSE 0
                          aj == IF ak = 0 THEN 0 ELSE gsMemberAt(s1.teams[ak].players, u)
                          s2 == IF aj = 0 THEN s1
                                ELSE [s1 EXCEPT !.teams[ak].players[aj] =
                                        [@ EXCEPT !.hitsGiven = @ + 1, !.points = @ + GS_POINTS_WON,
                                                  !.health = Min(GS_START_HEALTH, @ + GS_HEAL)]]
                          s3 == [s2 EXCEPT !.teams = [h \in 1..Len(@) |-> gsScore(@[h])]]
                      IN  [s |-> s3,
                           out |-> <<Msg("hit", [player |-> u, target |-> target.username,
                                                 weapon |-> weapon, damage |-> gsDamage(weapon)],
                                         TRUE, FALSE),
                                     gsTeamUpdate(s3)>>]

GsHit(c, color, weapon) ==
    /\ Player(c)
    /\ used.hits < limit.hits
    /\ LET o == conn[c].obj
           r == gsHandleHit(heap[o], conn[c].username, color, weapon)
       IN  /\ gsStore(o, r.s, sessions, conn)
           /\ out' = r.out
    /\ used' = [used EXCEPT !.hits = @ + 1]
    /\ last' = "hit"
    /\ UNCHANGED <<sessions, conn, opened, idle, limit, expect, tally>>

\* case 'forfeit': removePlayer, then ws.close(); the close event comes later
GsForfeit(c) ==
    /\ Player(c)
    /\ used.forfeits < limit.forfeits
    /\ LET o == conn[c].obj
           r == gsRemoved(heap[o], conn[c].username)
           cn == [conn EXCEPT ![c].kind = "closing"]
       IN  /\ conn' = cn
           /\ gsStore(o, r.s, sessions, cn)
           /\ out' = r.out
    /\ used' = [used EXCEPT !.forfeits = @ + 1]
    /\ last' = "forfeit"
    /\ UNCHANGED <<sessions, opened, idle, limit, expect, tally>>

\* case 'joinTeam': addPlayer again with the connection's own data
GsJoinTeam(c) ==
    /\ Player(c)
    /\ used.rejoins < limit.rejoins
    /\ LET o == conn[c].obj
           s == addPlayer(heap[o], c, conn[c].username, conn[c].color, conn[c].teamId)
       IN  /\ gsStore(o, s, sessions, conn)
           /\ out' = <<gsTeamUpdate(s)>>
    /\ used' = [used EXCEPT !.rejoins = @ + 1]
    /\ last' = "joinTeam"
    /\ UNCHANGED <<sessions, conn, opened, idle, limit, expect, tally>>

\* ws.on('close'), of a connection that is open or that a forfeit is closing
GsClose(c) ==
    /\ conn[c].kind \in {"player", "closing"}
    /\ used.closes < limit.closes
    /\ LET o == conn[c].obj
           r == gsRemoved(heap[o], conn[c].username)
           empty == Len(r.s.players) = 0
           s == IF empty /\ r.s.timer THEN [r.s EXCEPT !.intervals = 0] ELSE r.s
           cn == [conn EXCEPT ![c] = ClosedConn]
       IN  /\ sessions' = IF empty THEN [sessions EXCEPT ![s.id] = 0] ELSE sessions
           /\ conn' = cn
           /\ gsStore(o, s, sessions', cn)
           /\ out' = r.out
    /\ used' = [used EXCEPT !.closes = @ + 1]
    /\ last' = "close"
    /\ UNCHANGED <<opened, idle, limit, expect, tally>>

\* The periodic clean-up finds a registered session older than maxAge without players:
\* the age of a session is not modelled, any such session may be old enough.
GsCleanup(o) ==
    /\ o \in alloc
    /\ used.sweeps < limit.sweeps
    /\ sessions[heap[o].id] = o
    /\ Len(heap[o].players) = 0
    /\ LET s == IF heap[o].timer THEN [heap[o] EXCEPT !.intervals = 0] ELSE heap[o]
       IN  /\ sessions' = [sessions EXCEPT ![s.id] = 0]
           /\ gsStore(o, s, sessions', conn)
    /\ out' = <<>>
    /\ used' = [used EXCEPT !.sweeps = @ + 1]
    /\ last' = "sweep"
    /\ UNCHANGED <<conn, opened, idle, limit, expect, tally>>

\* Connections come and go.
GsRosterLimit ==
    [NoLimit EXCEPT !.conns = MaxConns, !.closes = MaxConns, !.forfeits = MaxForfeits,
                    !.rejoins = MaxRejoins, !.sweeps = MaxSweeps]

\* Two players play.
GsPlayLimit ==
    [NoLimit EXCEPT !.conns = 2, !.closes = 1, !.starts = MaxStarts, !.hits = MaxHits,
                    !.ticks = 1]

GsInit == InitStart /\ limit \in {GsRosterLimit, GsPlayLimit} /\ Zero

GsNext ==
    \/ \E gameCode \in SessionIds, name \in Names, color \in Colors, teamId \in TeamIds :
            GsConnect(gameCode, name, color, teamId)
    \/ GsConnectRejected
    \/ \E c \in ConnIds :
        \/ GsStartGame(c)
        \/ \E color \in HitColors, weapon \in Weapons : GsHit(c, color, weapon)
        \/ GsForfeit(c)
        \/ GsJoinTeam(c)
        \/ GsClose(c)
    \/ \E o \in ObjIds : GsTimer(o)
    \/ \E o \in ObjIds : GsCleanup(o)

SpecGS == GsInit /\ [][GsNext]_vars

\* ------------------------------------------------------------ the fan-out
\* readyState === WebSocket.OPEN: the socket of a connection whose close event is still to
\* come is CLOSING or CLOSED while the session still lists it.
IsOpen(cn, c) == cn[c].kind \in {"player", "spectator"}

\* for (let username in session.players): the players' connections in key order
PlayerConns(s) == [i \in 1..Len(s.players) |-> s.players[i].connection]

\* for (let id in session.spectators): the spectators' connections in insertion order
RECURSIVE SpectatorConns(_)
SpectatorConns(ids) ==
    IF ids = {} THEN <<>>
    ELSE LET c == CHOOSE x \in ids : \A y \in ids : x <= y
         IN  <<c>> \o SpectatorConns(ids \ {c})

\* One loop over targets from the k-th on; got lists the connections sent to so far.
\* guarded: the loop tests readyState before it sends. Without the test, send() on a
\* socket that is not open is dropped by the library or throws (strict), as the library's
\* version has it; nothing in the loop catches the exception.
RECURSIVE sendLoop(_, _, _, _, _, _)
sendLoop(targets, k, cn, guarded, strict, got) ==
    IF k > Len(targets) THEN [to |-> got, threw |-> FALSE]
    ELSE IF IsOpen(cn, targets[k]) THEN sendLoop(targets, k + 1, cn, guarded, strict, Append(got, targets[k]))
    ELSE IF guarded \/ ~strict THEN sendLoop(targets, k + 1, cn, guarded, strict, got)
    ELSE [to |-> got, threw |-> TRUE]

sendToClients(s, cn, sendToPlayers, sendToSpectators, guarded, strict) ==
    LET a == IF sendToPlayers THEN sendLoop(PlayerConns(s), 1, cn, guarded, strict, <<>>)
             ELSE [to |-> <<>>, threw |-> FALSE]
    IN  IF a.threw \/ ~sendToSpectators THEN a
        ELSE sendLoop(SpectatorConns(s.spectators), 1, cn, guarded, strict, a.to)

\* GameSession.broadcast(message): readyState is tested and send() is inside try/catch
broadcast(s, cn) ==
    sendLoop([i \in 1..Len(s.players) |-> s.players[i].ws], 1, cn, TRUE, FALSE, <<>>)

\* One call of sendToClients, of part_001 (v = "ws") or of server.js.
SendToClients(v) ==
    /\ last = "init"
    /\ "spectators" \in DOMAIN heap[1]
    /\ \E sendToPlayers \in BOOLEAN, sendToSpectators \in BOOLEAN, strict \in BOOLEAN :
        LET r == sendToClients(heap[1], conn, sendToPlayers, sendToSpectators, v = "ws", strict)
        IN  /\ out' = <<Msg("fanout", r.to, sendToPlayers, sendToSpectators)>>
            /\ last' = IF r.threw THEN "threw" ELSE "sent"
    /\ UNCHANGED <<sessions, alloc, heap, conn, opened, idle, used, limit, expect, tally>>

GsBroadcast ==
    /\ last = "init"
    /\ "spectators" \notin DOMAIN heap[1]
    /\ out' = <<Msg("fanout", broadcast(heap[1], conn).to, TRUE, FALSE)>>
    /\ last' = "sent"
    /\ UNCHANGED <<sessions, alloc, heap, conn, opened, idle, used, limit, expect, tally>>

\* The sessions in which connections c..MaxConns have the roles role gives them.
RECURSIVE Seated(_, _, _)
Seated(s, role, c) ==
    IF c > MaxConns THEN {s}
    ELSE IF role[c] = "player"
    THEN UNION {Seated(joinPlayer(s, c, u, PlayRequests[c][2], FALSE, Null), role, c + 1)
                : u \in UniqueNames(s.players, PlayRequests[c][1], MaxConns)}
    ELSE IF role[c] = "spectator"
    THEN Seated([s EXCEPT !.spectators = @ \cup {c}], role, c + 1)
    ELSE Seated(s, role, c + 1)

\* A solo session with players and spectators, some of whose sockets have closed and
\* whose close events have not been handled yet.
InitSend ==
    /\ limit = NoLimit
    /\ sessions = [sid \in SessionIds |-> 1]
    /\ alloc = {1}
    /\ \E role \in [ConnIds -> {"player", "spectator", "none"}], open \in [ConnIds -> BOOLEAN] :
        \E s \in Seated(createSession("abcd", "solo"), role, 1) :
            /\ heap = [o \in ObjIds |-> IF o = 1 THEN s ELSE BlankSession]
            /\ conn = [c \in ConnIds |->
                        IF role[c] = "none" THEN BlankConn
                        ELSE [BlankConn EXCEPT !.kind = IF open[c] THEN role[c] ELSE "closing",
                                               !.obj = 1]]
    /\ idle = [o \in ObjIds |-> 0]
    /\ opened = MaxConns

\* A GameSession with cable, or cable and zeke, likewise.
InitSendGs ==
    /\ limit = NoLimit
    /\ sessions = [sid \in SessionIds |-> 1]
    /\ alloc = {1}
    /\ \E both \in BOOLEAN, open \in [ConnIds -> BOOLEAN] :
        LET s1 == addPlayer(GameSession("abcd"), 1, "cable", "red", "1")
            s == IF both THEN addPlayer(s1, 2, "zeke", "blue", "2") ELSE s1
        IN  /\ heap = [o \in ObjIds |-> IF o = 1 THEN s ELSE BlankSession]
            /\ conn = [c \in ConnIds |->
                        IF c = 1 \/ (both /\ c = 2)
                        THEN [BlankConn EXCEPT !.kind = IF open[c] THEN "player" ELSE "closing",
                                               !.obj = 1]
                        ELSE BlankConn]
    /\ idle = [o \in ObjIds |-> 0]
    /\ opened = MaxConns

SendInit == (InitSend \/ InitSendGs) /\ Zero

SendNext == SendToClients("ws") \/ SendToClients("srv") \/ GsBroadcast

SpecSend == SendInit /\ [][SendNext]_vars

\* ------------------------------------------------------------ a broadcast that fails
\* GameSession.broadcast when send() throws on open sockets: the catch block calls
\* removePlayer, which ends with broadcastTeamUpdate and so with another broadcast, while
\* the loop of the first is still at the player it failed on.
KeysOf(players) == [i \in 1..Len(players) |-> players[i].username]

\* The loop of broadcast over the keys todo that are still to come, in a call that has
\* room for depth more calls on the stack. A Map's iterator passes over keys that were
\* deleted before it came to them. fails: the sockets whose send() throws. removed lists
\* the calls of removePlayer in their order; deep: the stack ran out.
RECURSIVE gsBroadcastFrom(_, _, _, _, _)
gsBroadcastFrom(s, todo, cn, fails, depth) ==
    IF todo = <<>> THEN [s |-> s, removed |-> <<>>, deep |-> FALSE]
    ELSE IF depth = 0 THEN [s |-> s, removed |-> <<>>, deep |-> TRUE]
    ELSE LET u == Head(todo)
             ws == s.players[IndexOf(s.players, u)].ws
         IN  IF ~HasPlayer(s.players, u) THEN gsBroadcastFrom(s, Tail(todo), cn, fails, depth)
             ELSE IF IsOpen(cn, ws) /\ ws \in fails
             THEN LET r == removePlayer(s, u).s
                      inner == gsBroadcastFrom(r, KeysOf(r.players), cn, fails, depth - 1)
                      rest == IF inner.deep THEN inner
                              ELSE gsBroadcastFrom(inner.s, Tail(todo), cn, fails, depth)
                  IN  [s |-> rest.s,
                       removed |-> IF inner.deep THEN <<u>> \o inner.removed
                                   ELSE <<u>> \o inner.removed \o rest.removed,
                       deep |-> rest.deep]
             ELSE gsBroadcastFrom(s, Tail(todo), cn, fails, depth)

\* One call of GameSession.broadcast from outside the class.
GsBroadcastThrows ==
    /\ last # "RangeError"
    /\ \E fails \in SUBSET ConnIds :
        LET r == gsBroadcastFrom(heap[1], KeysOf(heap[1].players), conn, fails, MaxDepth)
        IN  /\ heap' = [heap EXCEPT ![1] = r.s]
            /\ out' = <<Msg("broadcast", [removed |-> r.removed], TRUE, FALSE)>>
            /\ last' = IF r.deep THEN "RangeError" ELSE "sent"
    /\ UNCHANGED <<sessions, alloc, conn, opened, idle, used, limit, expect, tally>>

\* The GameSessions that connections c..MaxConns make of s when join[c] says who joins
\* over connection c, and for which team.
RECURSIVE CastJoined(_, _, _)
CastJoined(s, join, c) ==
    IF c > MaxConns THEN s
    ELSE IF join[c][1] = "none" THEN CastJoined(s, join, c + 1)
    ELSE CastJoined(addPlayer(s, c, join[c][1], PlayRequests[c][2], join[c][2]), join, c + 1)

\* A GameSession that up to MaxConns connections have joined, some of whose sockets have
\* closed and whose close events have not been handled yet.
CastInit ==
    /\ limit = NoLimit
    /\ sessions = [sid \in SessionIds |-> 1]
    /\ alloc = {1}
    /\ \E join \in [ConnIds -> (Names \cup {"none"}) \X TeamIds], open \in [ConnIds -> BOOLEAN] :
        /\ join[1][1] # "none"
        /\ heap = [o \in ObjIds |-> IF o = 1 THEN CastJoined(GameSession("abcd"), join, 1)
                                     ELSE BlankSession]
        /\ conn = [c \in ConnIds |->
                    IF join[c][1] = "none" THEN BlankConn
                    ELSE [BlankConn EXCEPT !.kind = IF open[c] THEN "player" ELSE "closing",
                                           !.obj = 1, !.username = join[c][1]]]
    /\ idle = [o \in ObjIds |-> 0]
    /\ opened = MaxConns
    /\ Zero

SpecCast == CastInit /\ [][GsBroadcastThrows]_vars

\* ------------------------------------------------------------ the session id
\* GET /new-id answers with getUniqueSessionId(), of which app-data has two versions:
\* a scan of 0, 1, 2, ... (laser-tag/server/app-data.js) and a loop that draws four
\* random letters until the code is unused (unnamed/part_000).  Neither registers the
\* id.  The scan always ends and is one step; the loop is one step per iteration.
ID_LENGTH == 4

characters ==
    <<"a", "b", "c", "d", "e", "f", "g", "h", "i", "j", "k", "l", "m",
      "n", "o", "p", "q", "r", "s", "t", "u", "v", "w", "x", "y", "z">>

\* characters.charAt(k)
charAt(k) == IF k + 1 \in DOMAIN characters THEN characters[k + 1] ELSE ""

\* Array(4).fill().map(() => characters.charAt(...)).join(""), for the drawn indices ks
RECURSIVE join(_)
join(ks) == IF Len(ks) = 0 THEN "" ELSE charAt(Head(ks)) \o join(Tail(ks))

\* Math.floor(Math.random() * characters.length), of the first letters only
Draws == [1..ID_LENGTH -> 0..(Letters - 1)]

\* The keys of the registry that a generator can run into.
ScanKeys == {ToString(i) : i \in 0..MaxRegistered}
IdKeys == {join(ks) : ks \in Draws} \cup ScanKeys

\* A bug: every id passes for unused.
inUseNever(reg, key) == FALSE

\* sessions[key] is truthy
inUse(reg, key) == key \in DOMAIN reg /\ reg[key] # 0

\* for (let i = 0; true; i++) if (!sessions[i]) return i
RECURSIVE getUniqueSessionId(_, _)
getUniqueSessionId(reg, i) ==
    IF ~inUse(reg, ToString(i)) THEN i ELSE getUniqueSessionId(reg, i + 1)

\* res.status(200).json({ id: newSessionId }): the id is a number from the scan and a
\* string from the random generator
NewIdReply(id, isNumber) ==
    <<Msg("new-id", IF isNumber THEN [number |-> id] ELSE [string |-> id], FALSE, FALSE)>>

\* router.get('/new-id') over the scanning generator
NewId ==
    /\ last = "init"
    /\ sessions \in [IdKeys -> {0} \cup ObjIds]
    /\ out' = NewIdReply(getUniqueSessionId(sessions, 0), TRUE)
    /\ last' = "returned"
    /\ UNCHANGED <<sessions, alloc, heap, conn, opened, idle, used, limit, expect, tally>>

\* router.get('/new-id') over the random generator: one iteration of its do-while loop,
\* which draws newId and either goes round again or returns it to the route
NewIdDraw(ks) ==
    /\ last \in {"init", "retry"}
    /\ sessions \in [IdKeys -> {0} \cup ObjIds]
    /\ LET newId == join(ks)
       IN  IF inUse(sessions, newId)
           THEN out' = <<>> /\ last' = "retry"
           ELSE out' = NewIdReply(newId, FALSE) /\ last' = "returned"
    /\ UNCHANGED <<sessions, alloc, heap, conn, opened, idle, used, limit, expect, tally>>

\* Some sessions are registered, under keys that a generator can run into.
InitNewId ==
    /\ limit = NoLimit
    /\ \E n \in 0..MaxRegistered :
        \E key \in [1..n -> IdKeys] :
            /\ \A i, j \in 1..n : key[i] = key[j] => i = j
            /\ alloc = 1..n
            /\ sessions = [k \in IdKeys |->
                            IF \E o \in 1..n : key[o] = k
                            THEN CHOOSE o \in 1..n : key[o] = k ELSE 0]
            /\ heap = [o \in ObjIds |->
                        IF o \in 1..n THEN createSession(key[o], "solo") ELSE BlankSession]
    /\ conn = NoConns
    /\ idle = [o \in ObjIds |-> 0]
    /\ opened = 0

NewIdInit == InitNewId /\ Zero

NewIdNext == NewId \/ \E ks \in Draws : NewIdDraw(ks)

\* The route handler runs to completion, and the draws of Math.random() are fair: an
\* iteration that can draw an unused id is not passed over for ever.
SpecNewId ==
    NewIdInit /\ [][NewIdNext]_vars /\ WF_vars(NewIdNext /\ last' = "returned")

\* ------------------------------------------------------------ websocket.js
\* The handlers of laser-tag/server/websocket.js.  Its connection handler looks the
\* session up, rejects and registers spectators and colour checks as part_001 does; it
\* has no clock, reaps no session and sends without looking at readyState (the sockets
\* it sends to here are open).
\* An inbound frame: text that JSON.parse takes or throws on, and what it parses to.
Unparseable == [json |-> FALSE, type |-> "", color |-> ""]

TypedPayload(type) == [json |-> TRUE, type |-> type, color |-> ""]

ColorPayload(color) == [json |-> TRUE, type |-> "", color |-> color]

PlayerPayloads == {Unparseable, TypedPayload("startGame"), TypedPayload("dance")}

CheckPayloads == {Unparseable} \cup {ColorPayload(color) : color \in Colors}

wsNewPlayer(c, u, color, teamId) ==
    [connection |-> c, username |-> u, color |-> color, teamId |-> teamId,
     hitsGiven |-> 0, hitsTaken |-> 0, points |-> START_POINTS]

wsGetPlayerList(s) ==
    [i \in 1..Len(s.players) |->
        [username |-> s.players[i].username, color |-> s.players[i].color,
         hitsGiven |-> s.players[i].hitsGiven, hitsTaken |-> s.players[i].hitsTaken,
         points |-> s.players[i].points]]

wsGetTeams(s) ==
    {[teamId |-> tm,
      players |-> [k \in 1..Len(s.teams[tm]) |->
                    [username |-> s.teams[tm][k],
                     color |-> s.players[IndexOf(s.players, s.teams[tm][k])].color]]]
     : tm \in DOMAIN s.teams}

wsBroadcastPlayerList(s) ==
    Msg("playerListUpdate",
        IF s.mode = "team" THEN [admin |-> s.admin, teams |-> wsGetTeams(s)]
        ELSE [admin |-> s.admin, playerList |-> wsGetPlayerList(s)], TRUE, TRUE)

\* The player join.  On the team path session.teams[teamId] is read after the player was
\* inserted: a session created solo has no teams and the read throws.
WsConnectPlayer(sid, pm, name, color, team) ==
    /\ used.conns < limit.conns
    /\ LET c == opened + 1
           l == Lookup(sid, pm)
           isTeamMode == pm = "team-session"
       IN  \E u \in UniqueNames(l.s.players, name, MaxConns) :
             LET s1 == [l.s EXCEPT !.players =
                            Append(@, wsNewPlayer(c, u, color, IF isTeamMode THEN team ELSE Null))]
                 s2 == IF isTeamMode THEN [s1 EXCEPT !.teams = teamPush(@, team, u)] ELSE s1
                 s == setAdmin(s2, u)
             IN  IF isTeamMode /\ l.s.mode # "team"
                 THEN /\ Install(sid, l, s1)
                      /\ conn' = [conn EXCEPT ![c] = ClosedConn]
                      /\ out' = <<>>
                      /\ last' = "threw"
                 ELSE /\ Install(sid, l, s)
                      /\ conn' = [conn EXCEPT ![c] =
                            [kind |-> "player", obj |-> l.obj, username |-> u,
                             teamId |-> IF isTeamMode THEN team ELSE Null,
                             isTeamMode |-> isTeamMode]]
                      /\ out' = <<wsBroadcastPlayerList(s)>>
                      /\ last' = "join"
    /\ opened' = opened + 1
    /\ used' = [used EXCEPT !.conns = @ + 1]
    /\ UNCHANGED <<limit, expect, tally>>

WsConnect ==
    /\ Running
    /\ \E sid \in SessionIds, pm \in PathModes :
        \/ \E name \in Names, team \in TeamIds : WsConnectPlayer(sid, pm, name, "red", team)
        \/ ConnectSpectator(sid, pm)
        \/ ConnectColorCheck(sid, pm)
        \/ ConnectRejected(sid, pm)

\* ws.on("message") of a player: a frame that does not parse is dropped, startGame is
\* taken from any player, every other type falls through.
WsMessage(c, raw) ==
    /\ Running
    /\ Player(c)
    /\ LET o == conn[c].obj
           s == [heap[o] EXCEPT !.state = "game", !.timeLeft = GAME_TIME]
       IN  IF raw.json /\ raw.type = "startGame"
           THEN /\ used.starts < limit.starts
                /\ heap' = [heap EXCEPT ![o] = s]
                /\ out' = <<Msg("startGame", [playerList |-> wsGetPlayerList(s)], TRUE, TRUE)>>
                /\ used' = [used EXCEPT !.starts = @ + 1]
                /\ last' = "startGame"
           ELSE /\ last # "ignored"
                /\ heap' = heap
                /\ out' = <<>>
                /\ used' = used
                /\ last' = "ignored"
    /\ UNCHANGED <<sessions, alloc, conn, opened, idle, limit, expect, tally>>

\* ws.on("message") of a colour check: JSON.parse(msg) stands outside any try block.
WsColorCheck(c, raw) ==
    /\ Running
    /\ conn[c].kind = "check"
    /\ used.checks < limit.checks
    /\ IF raw.json
       THEN out' = <<colorResult(heap[conn[c].obj], raw.color)>> /\ last' = "colorResult"
       ELSE out' = <<>> /\ last' = "threw"
    /\ used' = [used EXCEPT !.checks = @ + 1]
    /\ UNCHANGED <<sessions, alloc, heap, conn, opened, idle, limit, expect, tally>>

\* ws.on("close") of a player
WsClosePlayer(c) ==
    /\ Player(c)
    /\ used.closes < limit.closes
    /\ LET o == conn[c].obj
           s == closePlayer(heap[o], conn[c].username, conn[c].isTeamMode, conn[c].teamId)
       IN  /\ heap' = [heap EXCEPT ![o] = s]
           /\ out' = <<wsBroadcastPlayerList(s)>>
    /\ conn' = [conn EXCEPT ![c] = ClosedConn]
    /\ used' = [used EXCEPT !.closes = @ + 1]
    /\ last' = "close"
    /\ UNCHANGED <<sessions, alloc, opened, idle, limit, expect, tally>>

WsClose == Running /\ \E c \in ConnIds : WsClosePlayer(c) \/ CloseSpectator(c) \/ CloseCheck(c)

WsLimit ==
    [NoLimit EXCEPT !.conns = MaxConns, !.closes = 1, !.starts = MaxStarts, !.checks = MaxChecks]

WsInit == InitStart /\ limit = WsLimit /\ Zero

WsNext ==
    \/ WsConnect
    \/ \E c \in ConnIds, raw \in PlayerPayloads : WsMessage(c, raw)
    \/ \E c \in ConnIds, raw \in CheckPayloads : WsColorCheck(c, raw)
    \/ WsClose

SpecWs == WsInit /\ [][WsNext]_vars

\* ------------------------------------------------------------ a match under the clock
\* part_001's interval callback and its startGame message in behaviours of any length:
\* the handlers run without a budget, and every draw for a powerup fails.
NoGrants == [sid \in SessionIds |->
                IF sessions[sid] # 0 /\ heap[sessions[sid]].state = "game"
                THEN [i \in 1..Len(heap[sessions[sid]].players) |-> "none"]
                ELSE <<>>]

ClockTick ==
    /\ LET R == tickFrom("ws", 1, [sessions |-> sessions, alloc |-> alloc, heap |-> heap,
                                   idle |-> idle, expect |-> expect, out |-> <<>>], NoGrants)
       IN  /\ sessions' = R.sessions
           /\ alloc' = R.alloc
           /\ heap' = R.heap
           /\ idle' = R.idle
           /\ expect' = R.expect
           /\ tally' = {h \in tally : h[1] \in R.alloc}
           /\ out' = R.out
    /\ last' = "tick"
    /\ UNCHANGED <<conn, opened, limit, used>>

ClockStartGame(c) ==
    /\ Player(c)
    /\ LET o == conn[c].obj
           r == startGame(heap[o], conn[c].username, conn[c].isTeamMode)
       IN  /\ heap' = [heap EXCEPT ![o] = r.s]
           /\ out' = r.out
           /\ last' = IF conn[c].username = heap[o].admin THEN "startGame:admin" ELSE "startGame:other"
    /\ UNCHANGED <<sessions, alloc, conn, opened, idle, limit, expect, tally, used>>

\* The last second of a match of MaxConns players.
ClockInit ==
    /\ limit = NoLimit
    /\ sessions = [sid \in SessionIds |-> 1]
    /\ alloc = {1}
    /\ \E pm \in PathModes :
        \E s \in Joined(createSession("abcd", sessionMode(pm)), PlayRequests, 1, pm = "team-session") :
            /\ heap = [o \in ObjIds |->
                        IF o = 1 THEN [s EXCEPT !.state = "game", !.timeLeft = 1] ELSE BlankSession]
            /\ conn = [c \in ConnIds |->
                        [kind |-> "player", obj |-> 1, username |-> s.players[c].username,
                         teamId |-> s.players[c].teamId, isTeamMode |-> pm = "team-session"]]
    /\ idle = [o \in ObjIds |-> 0]
    /\ opened = MaxConns
    /\ Zero

ClockNext ==
    \/ ClockTick
    \/ \E c \in ConnIds : ClockStartGame(c)

\* setInterval(..., 1000): the callback runs every second for as long as the server does.
SpecClock == ClockInit /\ [][ClockNext]_vars /\ WF_vars(ClockTick)

\* ------------------------------------------------------------ two sessions, one clock
\* server.js's interval callback with two sessions in the registry: "abcd", which only a
\* spectator is connected to and which is about to be closed, was created before "wxyz",
\* which two players play in.
RoundIds == {"abcd", "wxyz"}

\* Object.values(appData.sessions): the sessions in the order of their creation
RoundOrder == <<"abcd", "wxyz">>

RoundGrants(g) == Cardinality({x \in RoundIds \X ConnIds : x[2] \in DOMAIN g[x[1]] /\ g[x[1]][x[2]] # "none"})

RoundTick ==
    /\ used.ticks < limit.ticks
    /\ \E g \in [RoundIds -> GrantSeqs] :
        /\ \A sid \in RoundIds : g[sid] \in GrantsOf(sid)
        /\ used.grants + RoundGrants(g) <= limit.grants
        /\ LET R == tickOver("srv", RoundOrder, 1,
                             [sessions |-> sessions, alloc |-> alloc, heap |-> heap,
                              idle |-> idle, expect |-> expect, out |-> <<>>], g)
           IN  /\ sessions' = R.sessions
               /\ alloc' = R.alloc
               /\ heap' = R.heap
               /\ idle' = R.idle
               /\ expect' = R.expect
               /\ tally' = {h \in tally : h[1] \in R.alloc}
               /\ out' = R.out
        /\ used' = [used EXCEPT !.ticks = @ + 1, !.grants = @ + RoundGrants(g)]
    /\ last' = "tick"
    /\ UNCHANGED <<conn, opened, limit>>

RoundLimit == [NoLimit EXCEPT !.ticks = MaxTicks, !.grants = MaxGrants]

\* The spectator of "abcd" has been alone for all but the last seconds of the persist time;
\* cable and zeke are in the last seconds of their match in "wxyz".
RoundInit ==
    /\ limit = RoundLimit
    /\ sessions = [sid \in RoundIds |-> IF sid = "abcd" THEN 1 ELSE 2]
    /\ alloc = {1, 2}
    /\ \E pt \in 1..MaxTicks, tl \in 1..MaxTicks :
        LET watched == [createSession("abcd", "solo") EXCEPT !.persistTime = pt, !.spectators = {1}]
            s1 == joinPlayer(createSession("wxyz", "solo"), 2, "cable", "red", FALSE, Null)
            s2 == joinPlayer(s1, 3, "zeke", "blue", FALSE, Null)
            played == [s2 EXCEPT !.state = "game", !.timeLeft = tl]
        IN  heap = [o \in ObjIds |-> IF o = 1 THEN watched ELSE IF o = 2 THEN played ELSE BlankSession]
    /\ conn = [c \in ConnIds |->
                IF c = 1 THEN [BlankConn EXCEPT !.kind = "spectator", !.obj = 1]
                ELSE [kind |-> "player", obj |-> 2, username |-> IF c = 2 THEN "cable" ELSE "zeke",
                      teamId |-> Null, isTeamMode |-> FALSE]]
    /\ idle = [o \in ObjIds |-> 0]
    /\ opened = MaxConns
    /\ Zero

SpecRound == RoundInit /\ [][RoundTick]_vars

\* ------------------------------------------------------------ properties
Stats(ps) == [i \in 1..Len(ps) |-> <<ps[i].username, ps[i].health, ps[i].points>>]

\* C1: whatever the order in which hits from different connections and clock ticks
\* arrive, every player's health and points are those obtained by applying the accepted
\* hits (and the ticks) one at a time in arrival order to up-to-date players: no hit's
\* effect is lost or overwritten.
HitsAppliedInArrivalOrder == \A o \in alloc : Stats(heap[o].players) = Stats(expect[o])

\* Two connections have hit the same target, which is neither of them, around a tick.
TwoShootersOneTarget ==
    \E h1 \in tally, h2 \in tally :
        /\ h1[1] = h2[1] /\ h1[3] = h2[3] /\ h1[2] # h2[2]
        /\ conn[h1[2]].username # h1[3] /\ conn[h2[2]].username # h2[3]
        /\ used.ticks > 0
        /\ heap[h1[1]].state = "game"

\* C2: as long as only joins, startGame, hits, forfeits, clock ticks (powerup grants and
\* expiries) and disconnects have been handled, every player's health is in 0..100 and
\* every player's points are at least 0.
HealthAndPointsInRange ==
    limit.frames = 0 =>
        \A o \in alloc : \A i \in 1..Len(heap[o].players) :
            /\ heap[o].players[i].health \in 0..MAX_HEALTH
            /\ heap[o].players[i].points >= 0

\* Two hits have taken more points than the target had, and healed a shooter at full health.
PointsFlooredHealthCapped ==
    /\ limit.frames = 0
    /\ \E o \in alloc : \E i, j \in 1..Len(heap[o].players) :
          /\ heap[o].players[i].hitsTaken = 2 /\ heap[o].players[i].points = 0
          /\ heap[o].players[j].hitsGiven > 0 /\ heap[o].players[j].health = MAX_HEALTH

\* C3: in a team session, a hit whose shooter and matched target have the same teamId
\* changes nothing in any session (health, points, hitsGiven, hitsTaken) and sends no
\* message.
FriendlyFireIsNoOp == [][last' = "hit:sameTeam" /\ used'.hits = used.hits + 1
                            => heap' = heap /\ out' = <<>>]_vars

\* A same-team hit was handled while nobody was eliminated or invincible.
FriendlyFireHappened ==
    /\ last = "hit:sameTeam"
    /\ \A o \in alloc : \A i \in 1..Len(heap[o].players) :
          /\ heap[o].players[i].health > ELIMINATED_HEALTH
          /\ heap[o].players[i].points > 0
          /\ heap[o].players[i].invincibility = 0

\* The roster broadcast among msgs, if any.
Roster(msgs) == SelectSeq(msgs, LAMBDA m : m.type = "playerListUpdate")

\* C10: a player who joins a session without admin becomes its admin; a join into a
\* session with an admin, and the disconnect of a player who is not the admin, leave the
\* admin unchanged; when the admin disconnects and players remain, one of them becomes
\* admin and the roster broadcast of that disconnect carries the new admin.
AdminSuccession ==
    [][\A o \in ObjIds :
        LET before == IF o \in alloc THEN heap[o].admin ELSE Null
            after == heap'[o].admin
        IN  /\ (last' = "join" /\ opened' = opened + 1 /\ conn'[opened'].obj = o)
                => after = (IF before = Null THEN conn'[opened'].username ELSE before)
            /\ \A c \in ConnIds :
                (conn[c].kind = "player" /\ conn'[c].kind = "closed" /\ conn[c].obj = o)
                => LET remaining == Usernames(heap[o].players) \ {conn[c].username}
                   IN  IF conn[c].username # before THEN after = before
                       ELSE remaining # {} =>
                                /\ after \in remaining
                                /\ Len(Roster(out')) = 1
                                /\ Roster(out')[1].body.admin = after]_vars

\* The admin cable has left and zeke, who stays, is admin in the roster broadcast.
AdminHandedOver ==
    /\ last = "close"
    /\ Len(out) = 2
    /\ out[1].body.username = "cable"
    /\ out[2].body.admin = "zeke"
    /\ \E o \in alloc : heap[o].admin = "zeke" /\ HasPlayer(heap[o].players, "zeke")

\* C11: an accepted hit by a shooter without instakill on another player leaves the target
\* with health max(0, health - 10) and points max(0, points - d) and the shooter with health
\* min(100, health + 10) and points + floor(d / 2), d being the weapon's 6, 12 or 32.
HitArithmetic ==
    [][(used'.hits = used.hits + 1 /\ out' # <<>> /\ out'[1].type = "hit") =>
        \A o \in alloc :
            heap'[o] # heap[o] =>
                LET m == out'[1].body
                    ps == heap[o].players
                    qs == heap'[o].players
                    sh == IndexOf(ps, m.player)
                    tg == IndexOf(ps, m.target)
                    d == CASE m.weapon = "pistol" -> PISTOL_DAMAGE
                           [] m.weapon = "shotgun" -> SHOTGUN_DAMAGE
                           [] m.weapon = "sniper" -> SNIPER_DAMAGE
                IN  (sh # tg /\ ps[sh].instakill = 0) =>
                        /\ qs[tg].health = Max(0, ps[tg].health - HIT_HEALTH_DAMAGE)
                        /\ qs[sh].health = Min(MAX_HEALTH, ps[sh].health + SRV_HIT_HEALTH_REWARD)
                        /\ qs[tg].points = Max(0, ps[tg].points - d)
                        /\ qs[sh].points = ps[sh].points + (d \div 2)]_vars

\* What an accepted hit by a shooter with instakill on another player does: the target's
\* points become 0, the shooter gains half of them, and a hit message then an elimination
\* message are sent; the cause is points_depleted, or names the health too when byHealth is
\* set and the target's health after the hit is at most ELIMINATED_HEALTH.
InstakillHit(byHealth) ==
    (used'.hits = used.hits + 1 /\ out' # <<>> /\ out'[1].type = "hit") =>
        \A o \in alloc :
            heap'[o] # heap[o] =>
                LET m == out'[1].body
                    ps == heap[o].players
                    qs == heap'[o].players
                    sh == IndexOf(ps, m.player)
                    tg == IndexOf(ps, m.target)
                IN  (sh # tg /\ ps[sh].instakill > 0) =>
                        /\ qs[tg].points = 0
                        /\ qs[sh].points = ps[sh].points + (ps[tg].points \div 2)
                        /\ Len(out') = 2
                        /\ out'[2].type = "elimination"
                        /\ out'[2].body.player = m.target
                        /\ out'[2].body.cause =
                              IF byHealth /\ qs[tg].health <= ELIMINATED_HEALTH
                              THEN "health_and_points_depleted"
                              ELSE "points_depleted"

RejectedJoinTouchesNothing ==
    [][(last' = "rejected" /\ used'.conns = used.conns + 1) =>
            /\ sessions' = sessions
            /\ alloc' = alloc
            /\ heap' = heap]_vars

\* Whether the player that a hit on color matches is the shooter u.
OwnColour(s, u, color) ==
    /\ HasPlayer(s.players, u)
    /\ FirstWithColor(s.players, color) = IndexOf(s.players, u)

\* C14: a hit message whose colour matches the shooter itself changes no session and sends
\* nothing, in a solo session as in a team session.
SelfHitIsNoOp ==
    [][\A c \in ConnIds, color \in HitColors, weapon \in Weapons :
        (/\ Hit("ws", c, color, weapon)
         /\ OwnColour(heap[conn[c].obj], conn[c].username, color))
        => heap' = heap /\ out' = <<>>]_vars

\* C15: a colour-check connection changes neither the registry nor any session, and the
\* reply to a colour-check message says available exactly when no player of the session
\* registered under the connection's session id has the colour, and changes nothing.
ColourCheckReadsTheRegistry ==
    [][/\ (last' = "check" /\ used'.conns = used.conns + 1) =>
            sessions' = sessions /\ alloc' = alloc /\ heap' = heap
       /\ \A c \in ConnIds, color \in HitColors :
            ColorCheck(c, color) =>
                LET o == sessions[heap[conn[c].obj].id]
                    taken == /\ o # 0
                             /\ \E i \in 1..Len(heap[o].players) : heap[o].players[i].color = color
                IN  /\ out'[1].type = "colorResult"
                    /\ out'[1].body.available = ~taken
                    /\ sessions' = sessions /\ heap' = heap]_vars

\* The replies alone: available exactly when no player of the registered session has the
\* colour.
ColourCheckReplies ==
    [][\A c \in ConnIds, color \in HitColors :
            ColorCheck(c, color) =>
                LET o == sessions[heap[conn[c].obj].id]
                    taken == /\ o # 0
                             /\ \E i \in 1..Len(heap[o].players) : heap[o].players[i].color = color
                IN  out'[1].body.available = ~taken]_vars

\* C16: a forfeit message leaves every session's player keys, teams and admin as they
\* were, sends a forfeiture notice to players and spectators, and leaves the player the
\* notice names, who is still connected and in the player map, with health 0 and points 0.
ForfeitKeepsThePlayer ==
    [][(last' = "forfeit" /\ used'.forfeits = used.forfeits + 1) =>
        /\ \A o \in alloc :
            /\ o \in alloc'
            /\ Usernames(heap'[o].players) = Usernames(heap[o].players)
            /\ heap'[o].teams = heap[o].teams
            /\ heap'[o].admin = heap[o].admin
        /\ \E k \in 1..Len(out') :
            /\ out'[k].type = "playerForfeited"
            /\ out'[k].toPlayers /\ out'[k].toSpectators
            /\ \E c \in ConnIds :
                /\ conn'[c].kind = "player"
                /\ conn'[c].username = out'[k].body.forfeitedPlayer
                /\ \E i \in 1..Len(heap'[conn'[c].obj].players) :
                    /\ heap'[conn'[c].obj].players[i].username = conn'[c].username
                    /\ heap'[conn'[c].obj].players[i].health = 0
                    /\ heap'[conn'[c].obj].players[i].points = 0]_vars

\* C17: after a fan-out call, the call has completed and every selected recipient whose
\* socket is open has been sent the message, whatever the state of the other sockets.
FanOutReachesEveryOpenPeer ==
    (out # <<>> /\ out[1].type = "fanout") =>
        /\ last = "sent"
        /\ \A c \in ConnIds :
            (/\ IsOpen(conn, c)
             /\ \/ /\ out[1].toPlayers
                    /\ \E i \in 1..Len(heap[1].players) :
                          IF "ws" \in DOMAIN heap[1].players[i]
                          THEN heap[1].players[i].ws = c
                          ELSE heap[1].players[i].connection = c
                \/ /\ out[1].toSpectators
                    /\ "spectators" \in DOMAIN heap[1]
                    /\ c \in heap[1].spectators)
            => InSeq(out[1].body, c)

\* C18: no session ever has more than one running timer, however often the game is
\* started, and a timer's callback takes exactly 1 from the timeLeft of its session and
\* changes no other session.
OneClockPerSession ==
    [][/\ \A o \in alloc' : "intervals" \in DOMAIN heap'[o] => heap'[o].intervals <= 1
       /\ (last' = "tick" /\ used'.ticks = used.ticks + 1) =>
            \E o \in alloc :
                /\ heap[o].intervals = 1
                /\ heap'[o].timeLeft = heap[o].timeLeft - 1
                /\ \A q \in ObjIds \ {o} : heap'[q] = heap[q]]_vars

\* The game was started twice, the second time while its timer ran, and the one timer
\* has ticked since.
RestartedGameTicks ==
    /\ last = "tick"
    /\ used.starts = MaxRestarts
    /\ used.ticks = 2
    /\ \E o \in alloc :
        /\ "intervals" \in DOMAIN heap[o]
        /\ heap[o].intervals = 1
        /\ heap[o].timeLeft = IO_GAME_TIME - 1

\* C19: a session's timer does not outlive the session: every running timer belongs to
\* the session object its id is registered to, and no timer step acts on, or broadcasts
\* for, a session that was removed from the registry.
TimerDiesWithItsSession ==
    [][/\ \A o \in alloc' :
            ("intervals" \in DOMAIN heap'[o] /\ heap'[o].intervals > 0) =>
                sessions'[heap'[o].id] = o
       /\ (last' = "tick" /\ used'.ticks = used.ticks + 1) =>
            \E o \in alloc :
                /\ heap'[o] # heap[o]
                /\ sessions[heap[o].id] = o]_vars

\* The keys of the registry.
Registered == {k \in DOMAIN sessions : sessions[k] # 0}

LookupIsIdempotent ==
    [][\A sid \in SessionIds :
        (opened' = opened + 1 /\ sessions[sid] # 0) =>
            LET o == sessions[sid]
                s == heap[o]
                n == heap'[o]
            IN  /\ sessions'[sid] = o
                /\ n.id = s.id /\ n.mode = s.mode /\ n.state = s.state
                /\ n.timeLeft = s.timeLeft
                /\ s.admin # Null => n.admin = s.admin
                /\ Len(n.players) >= Len(s.players)
                /\ SubSeq(n.players, 1, Len(s.players)) = s.players
                /\ \A t \in DOMAIN s.teams :
                    /\ t \in DOMAIN n.teams
                    /\ SubSeq(n.teams[t], 1, Len(s.teams[t])) = s.teams[t]]_vars

\* A player has joined a session that had players through the path of the other mode.
JoinedThroughTheOtherPath ==
    /\ last = "join"
    /\ \E c \in ConnIds :
        /\ conn[c].kind = "player"
        /\ c = opened
        /\ conn[c].isTeamMode # (heap[conn[c].obj].mode = "team")
        /\ Len(heap[conn[c].obj].players) >= 2
        /\ sessions[heap[conn[c].obj].id] = conn[c].obj

\* C22: when a player's disconnect leaves its session without players the session is
\* removed from the registry; when players remain the session stays registered and a
\* roster and a game update are sent to them; and no session that has players loses its
\* registration by the step.
DisconnectKeepsTheRest ==
    [][\A c \in ConnIds :
        (conn[c].kind = "player" /\ conn'[c].kind = "closed") =>
            LET o == conn[c].obj
                id == heap[o].id
                rest == SelectSeq(heap[o].players, LAMBDA p : p.username # conn[c].username)
            IN  /\ rest = <<>> => sessions'[id] # o
                /\ rest # <<>> =>
                    /\ sessions[id] = o => sessions'[id] = o
                    /\ \E k \in 1..Len(out') : out'[k].type = "playerListUpdate"
                    /\ \E k \in 1..Len(out') : out'[k].type = "gameUpdate"
                /\ \A q \in alloc \ {o} :
                    (Len(heap[q].players) > 0 /\ sessions[heap[q].id] = q) =>
                        sessions'[heap[q].id] = q]_vars

\* C23: a frame that does not parse, or whose type no handler knows, changes no session,
\* sends nothing and leaves the server and the connection as they were.
BadPayloadIsDropped ==
    [][\A c \in ConnIds :
        (\/ WsMessage(c, Unparseable)
         \/ WsMessage(c, TypedPayload("dance"))
         \/ WsColorCheck(c, Unparseable)) =>
            /\ heap' = heap /\ sessions' = sessions /\ conn' = conn
            /\ out' = <<>>
            /\ last' # "threw"]_vars

\* C24: the state of a session moves from lobby to game and from game to finished and
\* never back, and a startGame message to a session in game or finished leaves its state
\* and its timeLeft as they are.
StateOnlyMovesForward ==
    [][\A o \in alloc \cap alloc' :
        /\ heap[o].state = "game" => heap'[o].state \in {"game", "finished"}
        /\ heap[o].state = "finished" => heap'[o].state = "finished"
        /\ (used'.starts = used.starts + 1 /\ heap[o].state \in {"game", "finished"}) =>
              heap'[o].timeLeft = heap[o].timeLeft]_vars

\* C25: an accepted hit sends one hit event, first; when it leaves the target with health
\* at most 10 or without points, one elimination event for the target follows, whose
\* cause names the health, the points or both as they are; otherwise nothing follows.
HitThenOneElimination ==
    [][used'.hits = used.hits + 1 =>
        \A o \in alloc :
            heap'[o] # heap[o] =>
                /\ out' # <<>>
                /\ out'[1].type = "hit"
                /\ LET tg == heap'[o].players[IndexOf(heap'[o].players, out'[1].body.target)]
                       lowHealth == tg.health <= ELIMINATED_HEALTH
                       noPoints == tg.points <= 0
                   IN  IF lowHealth \/ noPoints
                       THEN /\ Len(out') = 2
                            /\ out'[2].type = "elimination"
                            /\ out'[2].body.player = tg.username
                            /\ out'[2].body.cause =
                                    IF lowHealth /\ noPoints THEN "health_and_points_depleted"
                                    ELSE IF lowHealth THEN "health_depleted"
                                    ELSE "points_depleted"
                       ELSE Len(out') = 1]_vars

\* C26: a hit message that changes a session or is broadcast comes from a shooter who had
\* points left and, where players have health, health above 10: the hit of an eliminated
\* shooter changes nothing and sends nothing.
EliminatedShooterIsIgnored ==
    [][used'.hits = used.hits + 1 =>
        \A o \in alloc :
            heap'[o] # heap[o] =>
                /\ out' # <<>>
                /\ out'[1].type = "hit"
                /\ LET sh == heap[o].players[IndexOf(heap[o].players, out'[1].body.player)]
                   IN  /\ sh.points > 0
                       /\ "health" \in DOMAIN sh => sh.health > ELIMINATED_HEALTH]_vars

\* Whether a hit on color finds no target in the players ps: the colour is the sentinel,
\* nobody has it, or the first player who has it is eliminated or invincible.
NoTarget(ps, color) ==
    LET matches == {i \in 1..Len(ps) : ps[i].color = color}
        first == CHOOSE i \in matches : \A j \in matches : i <= j
    IN  \/ color = "cyan"
        \/ matches = {}
        \/ ps[first].points <= 0
        \/ ps[first].health <= ELIMINATED_HEALTH
        \/ ps[first].invincibility > 0

\* C27: a hit message whose colour is the sentinel, or that no player has, or whose first
\* player is eliminated or invincible, changes no session and sends nothing.
HitWithoutTargetIsNoOp ==
    [][\A c \in ConnIds, color \in HitColors, weapon \in Weapons :
        (Hit("ws", c, color, weapon) /\ NoTarget(heap[conn[c].obj].players, color))
        => heap' = heap /\ out' = <<>>]_vars

\* A hit was rejected in a session in game state in which a player is invincible and the
\* first player of every colour is invincible or eliminated.
ProtectedTargetsNotHit ==
    /\ last = "hit"
    /\ out = <<>>
    /\ \E o \in alloc :
        LET ps == heap[o].players
        IN  /\ heap[o].state = "game"
            /\ \E i \in 1..Len(ps) : ps[i].invincibility > 0
            /\ \E i \in 1..Len(ps) : ps[i].points > 0 /\ ps[i].health > ELIMINATED_HEALTH
            /\ \A color \in Colors : NoTarget(ps, color)
            /\ \A color \in Colors : \E i \in 1..Len(ps) : ps[i].color = color

\* C28: the interval callback leaves a session that is in lobby or finished state as it
\* was, the persist countdown apart (or deletes it when the countdown ends), and sends no
\* gameUpdate and no powerup message for it.
IdleTickKeepsTheGame ==
    [][(last' = "tick" /\ used'.ticks = used.ticks + 1)
        => \A sid \in SessionIds :
            LET o == sessions[sid]
            IN  (o # 0 /\ heap[o].state \in {"lobby", "finished"})
                => /\ \/ sessions'[sid] = 0
                      \/ heap'[o] = [heap[o] EXCEPT !.persistTime = heap'[o].persistTime]
                   /\ \A i \in 1..Len(out') : out'[i].type \notin {"gameUpdate", "powerup"}]_vars

\* The callback has run on a finished session that has players: the tick that ended the
\* game was followed by another, with no start of a game between them.
TickedAfterTheEnd ==
    /\ last = "tick"
    /\ used.ticks = 2
    /\ used.starts = 0
    /\ \E sid \in SessionIds :
        /\ sessions[sid] # 0
        /\ heap[sessions[sid]].state = "finished"
        /\ heap[sessions[sid]].timeLeft = 0
        /\ Len(heap[sessions[sid]].players) > 0

\* A tick takes one second off the clock of a registered session in game state, and the
\* tick that brings it to 0 leaves the session finished and sends a gameUpdate or gameEnd.
TickCountsDown ==
    [][(last' = "tick" /\ used'.ticks = used.ticks + 1)
        => \A sid \in SessionIds :
            LET o == sessions[sid]
            IN  (o # 0 /\ sessions'[sid] # 0 /\ heap[o].state = "game")
                => /\ heap'[o].timeLeft = heap[o].timeLeft - 1
                   /\ heap'[o].timeLeft <= 0
                      => /\ heap'[o].state = "finished"
                         /\ \E i \in 1..Len(out') : out'[i].type \in {"gameUpdate", "gameEnd"}
                   /\ heap'[o].timeLeft > 0 => heap'[o].state = "game"]_vars

\* C29: when the interval callback runs every second, a session in game state becomes
\* finished or is destroyed.
GameEnds ==
    \A o \in ObjIds :
        (o \in alloc /\ heap[o].state = "game") ~> (o \notin alloc \/ heap[o].state = "finished")

\* The same of a session whose admin stops sending startGame.
GameEndsWhenLeftAlone ==
    <>[][\A c \in ConnIds : ~ClockStartGame(c)]_vars => GameEnds

\* C30: a tick on a registered session in game state leaves every player whose health was
\* at or below ELIMINATED_HEALTH when the tick began with 0 points.
LowHealthLosesPoints ==
    [][(last' = "tick" /\ used'.ticks = used.ticks + 1)
        => \A sid \in SessionIds :
            LET o == sessions[sid]
            IN  (o # 0 /\ sessions'[sid] # 0 /\ heap[o].state = "game")
                => \A i \in 1..Len(heap[o].players) :
                      heap[o].players[i].health <= ELIMINATED_HEALTH
                      => heap'[o].players[i].points = 0]_vars

\* A tick has taken the points of a player whom nobody hit and who did not forfeit: a
\* camera frame had brought the player's health to ELIMINATED_HEALTH or less.
TickTookThePoints ==
    /\ last = "tick"
    /\ used.frames > 0
    /\ used.forfeits = 0
    /\ \E sid \in SessionIds :
        /\ sessions[sid] # 0
        /\ heap[sessions[sid]].state = "game"
        /\ \E i \in 1..Len(heap[sessions[sid]].players) :
              LET p == heap[sessions[sid]].players[i]
              IN  p.health <= ELIMINATED_HEALTH /\ p.points = 0 /\ p.hitsTaken = 0

\* A powerup counter after a tick that began with it at n, by whether the tick granted
\* the powerup.
CountedDown(n, granted) == IF granted THEN POWERUP_DURATION ELSE IF n > 0 THEN n - 1 ELSE 0

\* Whether the messages msgs tell player u of a grant of powerup.
ToldOfGrant(msgs, u, powerup) ==
    \E k \in 1..Len(msgs) :
        msgs[k].type = "powerup" /\ msgs[k].body.to = u /\ msgs[k].body.powerup = powerup

\* C31: every tick on a registered session in game state, the last tick of the match
\* included, takes 1 off each player's invincibility and instakill counters that are above
\* 0, unless it grants the powerup anew, and leaves no counter below 0.
PowerupCountsDown ==
    [][(last' = "tick" /\ used'.ticks = used.ticks + 1)
        => \A sid \in SessionIds :
            LET o == sessions[sid]
            IN  (o # 0 /\ sessions'[sid] # 0 /\ heap[o].state = "game")
                => \A i \in 1..Len(heap[o].players) :
                      LET p == heap[o].players[i]
                          q == heap'[o].players[i]
                      IN  /\ q.invincibility =
                                CountedDown(p.invincibility, ToldOfGrant(out', p.username, "invincibility"))
                          /\ q.instakill =
                                CountedDown(p.instakill, ToldOfGrant(out', p.username, "instakill"))
                          /\ q.invincibility >= 0
                          /\ q.instakill >= 0]_vars

\* C32: a tick that grants healthBoost to a player raises the player's health by
\* HEALTH_BOOST, to MAX_HEALTH at most, and does to the player's counters and points only
\* what a tick without a grant does; and no step leaves a player with a healthBoost entry
\* above 0.
HealthBoostIsInstant ==
    [][/\ \A o \in alloc' : \A i \in 1..Len(heap'[o].players) : heap'[o].players[i].healthBoost = 0
       /\ (last' = "tick" /\ used'.ticks = used.ticks + 1)
          => \A sid \in SessionIds :
              LET o == sessions[sid]
              IN  (o # 0 /\ sessions'[sid] # 0 /\ heap[o].state = "game")
                  => \A i \in 1..Len(heap[o].players) :
                        LET p == heap[o].players[i]
                            q == heap'[o].players[i]
                        IN  ToldOfGrant(out', p.username, "healthBoost")
                            => /\ q.health = Min(MAX_HEALTH, p.health + HEALTH_BOOST)
                               /\ q.invincibility = CountedDown(p.invincibility, FALSE)
                               /\ q.instakill = CountedDown(p.instakill, FALSE)
                               /\ q.points = IF p.health <= ELIMINATED_HEALTH THEN 0 ELSE p.points]_vars

\* A tick has granted healthBoost to a player whose client had reported a health of 20:
\* the player's health is 50.
BoostedFromTwenty ==
    /\ last = "tick"
    /\ used.frames > 0
    /\ \E o \in alloc : \E i \in 1..Len(heap[o].players) :
          /\ ToldOfGrant(out, heap[o].players[i].username, "healthBoost")
          /\ heap[o].players[i].health = 20 + HEALTH_BOOST
          /\ heap[o].players[i].healthBoost = 0

\* C33: a run of the interval callback takes a second off the clock of every registered
\* session in game state and sends its gameUpdate, whatever happens to the other sessions
\* in the same run.
EverySessionTicks ==
    [][(last' = "tick" /\ used'.ticks = used.ticks + 1)
        => \A sid \in DOMAIN sessions :
            LET o == sessions[sid]
            IN  (o # 0 /\ heap[o].state = "game" /\ Len(heap[o].players) > 0)
                => /\ heap'[o].timeLeft = heap[o].timeLeft - 1
                   /\ \E k \in 1..Len(out') :
                        /\ out'[k].type = "gameUpdate"
                        /\ out'[k].body.timeLeft = heap'[o].timeLeft]_vars

\* The socket a player record was made for.
SocketOf(p) == IF "socketId" \in DOMAIN p THEN p.socketId ELSE p.connection

\* C34: no step takes anything off the hitsGiven or the hitsTaken of a player who stays in
\* the session, and no step adds more than 1 to either.
HitCountersOnlyGrow ==
    [][\A o \in alloc \cap alloc' :
        \A i \in 1..Len(heap[o].players), j \in 1..Len(heap'[o].players) :
            LET p == heap[o].players[i]
                q == heap'[o].players[j]
            IN  (q.username = p.username /\ SocketOf(q) = SocketOf(p))
                => /\ q.hitsGiven \in {p.hitsGiven, p.hitsGiven + 1}
                   /\ q.hitsTaken \in {p.hitsTaken, p.hitsTaken + 1}]_vars

\* Whether a player is eliminated.
Eliminated(p) == p.health <= ELIMINATED_HEALTH \/ p.points <= 0

\* C35: a player who is eliminated is eliminated after every step that leaves the player
\* in the session.
EliminationIsAbsorbing ==
    [][\A o \in alloc \cap alloc' :
        \A i \in 1..Len(heap[o].players), j \in 1..Len(heap'[o].players) :
            LET p == heap[o].players[i]
                q == heap'[o].players[j]
            IN  (q.username = p.username /\ q.connection = p.connection /\ heap[o].state = "game"
                 /\ heap'[o].state = "game" /\ Eliminated(p))
                => Eliminated(q)]_vars

\* C36: a hit message to a session in lobby or finished state leaves every player of the
\* session as it was.
HitsOnlyCountInGame ==
    [][used'.hits = used.hits + 1
        => \A o \in alloc :
            heap[o].state \in {"lobby", "finished"} => heap'[o].players = heap[o].players]_vars

\* C37: whatever messages have been handled, camera frames with a health attached among
\* them, every player's health is in 0..MAX_HEALTH.
HealthInRangeAfterFrames ==
    \A o \in alloc : \A i \in 1..Len(heap[o].players) : heap[o].players[i].health \in 0..MAX_HEALTH

\* C38: every cameraFramesBatch is the list of the latest frames of a session in which
\* every listed username is a player of that session and the health listed with it is
\* that player's health.
BatchReportsThePlayers ==
    [][used'.frames = used.frames + 1
        => \A k \in 1..Len(out') :
              out'[k].type = "cameraFramesBatch"
              => \E o \in alloc' :
                    /\ {e.username : e \in out'[k].body} = heap'[o].latestFrames
                    /\ \A e \in out'[k].body :
                          /\ HasPlayer(heap'[o].players, e.username)
                          /\ e.health = heap'[o].players[IndexOf(heap'[o].players, e.username)].health]_vars

\* C39: in every GameSession the entry of the players map and the entry of the member list
\* of the player's team that bear the same username have the same points, health,
\* hitsGiven and hitsTaken.
PlayerAndMemberAgree ==
    \A o \in alloc :
        \A i \in 1..Len(heap[o].players), k \in 1..Len(heap[o].teams) :
            \A j \in 1..Len(heap[o].teams[k].players) :
                LET p == heap[o].players[i]
                    m == heap[o].teams[k].players[j]
                IN  (heap[o].teams[k].teamId = p.teamId /\ m.username = p.username)
                    => /\ m.points = p.points
                       /\ m.health = p.health
                       /\ m.hitsGiven = p.hitsGiven
                       /\ m.hitsTaken = p.hitsTaken

\* C40: a call of GameSession.broadcast returns; it calls removePlayer once at most for a
\* username, and it leaves no username it called removePlayer for in the players map or in
\* the member list of a team.
FailedRecipientsAreGone ==
    [][(out' # <<>> /\ out'[1].type = "broadcast")
        => LET removed == out'[1].body.removed
           IN  /\ last' = "sent"
               /\ \A a, b \in 1..Len(removed) : removed[a] = removed[b] => a = b
               /\ \A a \in 1..Len(removed) :
                    /\ ~HasPlayer(heap'[1].players, removed[a])
                    /\ \A k \in 1..Len(heap'[1].teams) :
                          gsMemberAt(heap'[1].teams[k].players, removed[a]) = 0]_vars

\* The same without the stale members: the call returns, calls removePlayer once at most
\* for a username, and leaves no such username in the players map or in the member list
\* of the team that the username's entry of the map named.
FailedRecipientsLeaveTheirTeam ==
    [][(out' # <<>> /\ out'[1].type = "broadcast")
        => LET removed == out'[1].body.removed
           IN  /\ last' = "sent"
               /\ \A a, b \in 1..Len(removed) : removed[a] = removed[b] => a = b
               /\ \A a \in 1..Len(removed) :
                    /\ HasPlayer(heap[1].players, removed[a])
                    /\ ~HasPlayer(heap'[1].players, removed[a])
                    /\ \A k \in 1..Len(heap'[1].teams) :
                          heap'[1].teams[k].teamId =
                              heap[1].players[IndexOf(heap[1].players, removed[a])].teamId
                          => gsMemberAt(heap'[1].teams[k].players, removed[a]) = 0]_vars

\* C4: no two open player connections of one session have the same username: a join under
\* a username that is a key of the player map gets a key of its own and overwrites no
\* entry, so every open player connection has the entry made for it.
JoinNeverOverwrites ==
    \A c1 \in ConnIds, c2 \in ConnIds :
        (/\ c1 # c2
         /\ conn[c1].kind = "player" /\ conn[c2].kind = "player"
         /\ conn[c1].obj = conn[c2].obj)
        => conn[c1].username # conn[c2].username

\* C5: in every session, when the player map is not empty the admin is one of its keys,
\* and when there is no admin the player map is empty.
AdminIsAPlayer ==
    \A o \in alloc :
        /\ Len(heap[o].players) > 0 => heap[o].admin \in Usernames(heap[o].players)
        /\ heap[o].admin = Null => Len(heap[o].players) = 0

\* C6: in a team session the teams mapping is the inverse of the players' teamId: every
\* listed username is a player of that team, every player with a team is listed in it,
\* nobody is listed twice and no team is empty.
TeamsMirrorPlayers ==
    \A o \in alloc :
        heap[o].mode = "team" =>
            /\ \A tm \in DOMAIN heap[o].teams :
                /\ heap[o].teams[tm] # <<>>
                /\ \A k \in 1..Len(heap[o].teams[tm]) :
                    /\ HasPlayer(heap[o].players, heap[o].teams[tm][k])
                    /\ heap[o].players[IndexOf(heap[o].players, heap[o].teams[tm][k])].teamId = tm
                    /\ \A j \in 1..Len(heap[o].teams[tm]) :
                          heap[o].teams[tm][j] = heap[o].teams[tm][k] => j = k
            /\ \A i \in 1..Len(heap[o].players) :
                heap[o].players[i].teamId # Null =>
                    /\ heap[o].players[i].teamId \in DOMAIN heap[o].teams
                    /\ InSeq(heap[o].teams[heap[o].players[i].teamId], heap[o].players[i].username)

\* C7: the clock removes a session only on a tick that finds it without players and
\* without spectators for the SESSION_PERSIST_TIME-th consecutive time, and a tick that
\* finds a player or a spectator sets the countdown to SESSION_PERSIST_TIME.
ReapedOnlyAfterFullCountdown ==
    [][\A sid \in SessionIds :
        LET o == sessions[sid]
        IN  (o # 0 /\ last' = "tick" /\ used'.ticks = used.ticks + 1) =>
              /\ sessions'[sid] = 0 => isEmpty(heap[o]) /\ idle[o] + 1 >= SESSION_PERSIST_TIME
              /\ (sessions'[sid] # 0 /\ ~isEmpty(heap[o]))
                    => heap'[o].persistTime = SESSION_PERSIST_TIME]_vars

\* C8: a tick that finds a session with a spectator and no player leaves the session
\* registered and its countdown at SESSION_PERSIST_TIME.
WatchedSessionIsKept ==
    [][\A sid \in SessionIds :
        LET o == sessions[sid]
        IN  (/\ o # 0 /\ last' = "tick" /\ used'.ticks = used.ticks + 1
             /\ Len(heap[o].players) = 0 /\ heap[o].spectators # {}) =>
              /\ sessions'[sid] = o
              /\ heap'[o].persistTime = SESSION_PERSIST_TIME]_vars

\* C9: a startGame message from a player who is not the admin of the session changes no
\* session and sends nothing; one from the admin of a session in lobby sets state to
\* game and timeLeft to GAME_TIME.
StartGameIsAdminOnly ==
    [][used'.starts = used.starts + 1 =>
        /\ last' = "startGame:other" => heap' = heap /\ out' = <<>>
        /\ last' = "startGame:admin" =>
              \E o \in alloc :
                  /\ heap'[o].state = "game"
                  /\ heap'[o].timeLeft = GAME_TIME
                  /\ \A q \in ObjIds \ {o} : heap'[q] = heap[q]
                  /\ \E k \in 1..Len(out') : out'[k].type = "startGame"]_vars

====
